---- MODULE Spec2Model ----
(***************************************************************************)
(* Model of the Ralph/RLM supervisor plugin (.opencode/plugins/ralph-rlm.ts)*)
(*                                                                         *)
(* The plugin runs on a single-threaded event loop.  Every handler (an     *)
(* idle event, a tool call) runs without interruption between two awaits;  *)
(* at an await any other handler may run.  A handler in flight is a record *)
(* in `handlers` whose pc names the await it is suspended at; one action   *)
(* models the code between two awaits.                                     *)
(***************************************************************************)
EXTENDS Integers, Sequences, FiniteSets, TLC

\* ------------------------------------------------------------------ bounds
MaxId == 6            \* highest session id the session host hands out
MaxHandlers == 2      \* handlers that may be suspended at an await at once
MaxAttemptsCfg == 2   \* the configured maxAttempts of the modelled runs
MaxCalls == 5         \* events and tool calls delivered to the plugin per behaviour
MaxCmds == 2          \* verification command invocations per behaviour
MaxSubAgents == 2     \* the configured maxSubAgents of the modelled runs
MaxQuestions == 2     \* ralph_ask calls per behaviour
MaxResponds == 2      \* ralph_respond calls per behaviour
MaxPolls == 2         \* polling iterations of ralph_ask before it times out (timeout_minutes * 12)
MaxReviewerRuns == 2  \* highest configured reviewerMaxRunsPerAttempt of the modelled runs
MaxReviewCalls == 3   \* reviewer tool calls per behaviour where they overlap

\* ------------------------------------------------------------- identifiers
None == 0
Main1 == 1
Main2 == 2
FirstChildId == 3
MainIds == {Main1, Main2}
ChildIds == FirstChildId..MaxId
SessionIds == MainIds \cup ChildIds

\* src: DESTRUCTIVE_TOOLS / SAFE_TOOLS; "read" stands for every tool in neither set
DESTRUCTIVE_TOOLS == {"write", "edit", "bash", "delete", "move", "rename"}
SAFE_TOOLS == {"ralph_load_context", "rlm_grep", "rlm_slice", "subagent_peek",
               "ralph_verify", "ralph_report", "ralph_ask", "ralph_respond"}
OTHER_TOOLS == {"read"}
ToolNames == DESTRUCTIVE_TOOLS \cup SAFE_TOOLS \cup OTHER_TOOLS

VARIABLES
    cfg,                      \* resolved configuration (constant within a behaviour)
    planExists,               \* PLAN.md exists (checkSetup)
    sessionId,                \* supervisor.sessionId (bound controller)
    attempt,                  \* supervisor.attempt
    currentRalphSessionId,    \* supervisor.currentRalphSessionId
    currentWorkerSessionId,   \* supervisor.currentWorkerSessionId
    done,                     \* supervisor.done (terminal)
    paused,                   \* supervisor.paused
    lastMainIdleRecent,       \* supervisor.lastMainIdleAt lies within the last 800 ms
    activeReviewer,           \* supervisor.activeReviewer* fields (None or a record)
    reviewRequested,          \* supervisor.reviewRequested : attempts with a request
    reviewerRuns,             \* supervisor.reviewerRuns : attempt -> count
    reviewerDisk,             \* .opencode/reviewer_state.json
    sessionMap,               \* sessionMap : id -> SessionState (NoSession when absent)
    nextId,                   \* next id client.session.create returns
    handlers,                 \* handlers suspended at an await
    calls,                    \* number of events and tool calls delivered so far
    loadCalled,               \* history: sessions that have called ralph_load_context
    created,                  \* history: every session ever registered, id -> <<role, attempt>>
    verdicts,                 \* history: verdicts of the verification runs, in order
    rollovers,                \* history: number of rolloverState calls
    gateLog,                  \* history: outcome of the last tool.execute.before
    activeCommands,           \* activeCommands : the invocations in the in-flight registry
    commands,                 \* every runVerify invocation: its entry, child process and result
    agentDocs,                \* names whose .opencode/agents/<name> documents are written
    agentDone,                \* names whose CURRENT_STATE.md holds the done heading or sentinel
    awaitLog,                 \* history: what the last subagent_await returned
    pending,                  \* .opencode/pending_input.json: questions and responses
    asks,                     \* every ralph_ask call: its position, snapshot, polls, result
    responds,                 \* every ralph_respond call: its position, snapshot, report
    writers,                  \* payload of the last `void persistReviewerState()` not yet on disk
    reviewStarts,             \* history: the reviewer sessions created, in order
    reviewReply,              \* history: what the last ralph_run_reviewer returned
    reviewerDone,             \* reviewer names whose CURRENT_STATE.md holds the done marker
    lastToast,                \* history: the last warning toast shown
    idleDropped,              \* history: sessions whose session.idle event was ignored
    rawConfig,                \* the decoded .opencode/ralph.json (its two slice limits)
    limits                    \* the two slice limits of the resolved configuration

supVars == <<sessionId, attempt, currentRalphSessionId, currentWorkerSessionId, done, paused,
             lastMainIdleRecent>>
revVars == <<activeReviewer, reviewRequested, reviewerRuns, reviewerDisk>>
histOnly == <<loadCalled, created, verdicts, rollovers>>
histVars == <<calls, histOnly>>
\* further files of the worktree and what the tools reported about them
qaVars == <<pending, asks, responds>>
reviewHist == <<writers, reviewStarts, reviewReply, reviewerDone>>
toolVars == <<reviewHist, lastToast, idleDropped, rawConfig, limits>>
fileVars == <<agentDone, awaitLog, qaVars, toolVars>>
envVars == <<activeCommands, commands, agentDocs, fileVars>>
vars == <<cfg, planExists, supVars, revVars, sessionMap, nextId, handlers, histVars, gateLog,
         envVars>>

\* ---------------------------------------------------------- session records
NoSession == [role |-> "none", attempt |-> 0, loadedContext |-> FALSE, workerSpawned |-> FALSE,
              subAgents |-> <<>>]

\* src: freshSession(role = "main", attempt = 0)
freshSession(role, att) ==
    [role |-> role, attempt |-> att, loadedContext |-> FALSE, workerSpawned |-> FALSE,
     subAgents |-> <<>>]

Registered(id) == sessionMap[id].role # "none"

\* src: getSession(id) -- auto-creates a "main" record when the id is unknown
getSessionMap(id) ==
    IF Registered(id) THEN sessionMap ELSE [sessionMap EXCEPT ![id] = freshSession("main", 0)]

\* ------------------------------------------------------------ handler slots
NoSnap == [reviewRequested |-> {}, reviewerRuns |-> [a \in 0..(MaxAttemptsCfg + MaxHandlers) |-> 0],
           active |-> [name |-> "none", attempt |-> 0, sessionId |-> None]]
Free == [pc |-> "free", sid |-> None, att |-> 0, arg |-> {}, verdict |-> "none", snap |-> NoSnap,
         child |-> None]
Slots == 1..MaxHandlers
FreeSlots == {h \in Slots : handlers[h].pc = "free"}
AllFree == \A h \in Slots : handlers[h].pc = "free"
NewSlot == CHOOSE h \in FreeSlots : \A g \in FreeSlots : h <= g
Suspend(pc, sid, att, arg) ==
    handlers' = [handlers EXCEPT ![NewSlot] =
                    [pc |-> pc, sid |-> sid, att |-> att, arg |-> arg, verdict |-> "none",
                     snap |-> NoSnap, child |-> None]]
Goto(h, pc) == handlers' = [handlers EXCEPT ![h].pc = pc]
GotoAtt(h, pc, att) == handlers' = [handlers EXCEPT ![h].pc = pc, ![h].att = att]
Finish(h) == handlers' = [handlers EXCEPT ![h] = Free]
At(h, pc) == handlers[h].pc = pc
\* a new event or tool call is delivered to the plugin; behaviours that start
\* with calls = Uncounted deliver any number of them
Uncounted == 0 - 1
Delivered == IF calls = Uncounted THEN calls' = calls
                                  ELSE calls < MaxCalls /\ calls' = calls + 1

\* ------------------------------------------------------- command invocations
\* src: ActiveCommand plus what runCommand / runVerify keep of one invocation.
\* st: "idle" not yet invoked, "running" between spawn and the promise settling,
\* "returned" once runVerify has returned its verdict.
NoCode == 0 - 1
CmdIds == 1..MaxCmds
NoCommand == [st |-> "idle", proc |-> "none", killed |-> FALSE, timedOut |-> FALSE,
              timeoutTimer |-> FALSE, killTimer |-> FALSE, exit |-> "none", code |-> NoCode,
              verdict |-> "none"]

\* ------------------------------------------------------- questions and answers
\* src: PendingInputData, QuestionRecord.  The calls of ralph_ask are numbered
\* in the order they are made and a Question Record is named by the number of
\* the call that pushed it; its id is the `ask-${Date.now()}` of that call, a
\* millisecond of the clock, and the responses are keyed by id.
QIds == 1..MaxQuestions
RespondIds == 1..MaxResponds
Answers == {"Y", "N"}
NoAnswer == "none"
NoPending == [questions |-> {}, responses |-> [q \in QIds |-> NoAnswer]]
NoAsk == [st |-> "idle", sid |-> None, id |-> 0, snap |-> NoPending, polls |-> 0,
          answer |-> NoAnswer]
NoRespond == [st |-> "idle", id |-> 0, answer |-> NoAnswer, snap |-> NoPending,
              report |-> "none", listed |-> {}]

\* ------------------------------------------------------------ review gating
AttemptRange == 0..(MaxAttemptsCfg + MaxHandlers)
NoReview == [name |-> "none", attempt |-> 0, sessionId |-> None]
NoRuns == [a \in AttemptRange |-> 0]

\* src: persistReviewerState -- the payload it builds from the supervisor record
ReviewerPayload == [reviewRequested |-> reviewRequested, reviewerRuns |-> reviewerRuns,
                    active |-> activeReviewer]

\* src: checkSetup -- ready iff verify.command is configured and PLAN.md exists
SetupReady == cfg.verify /\ planExists


\* ------------------------------------------------------------ slice limits
\* A raw numeric field of ralph.json: left out, or a JavaScript number.  A
\* finite number is kept in tenths, so that 95 stands for 9.5.
RawKinds == {"missing", "NaN", "Infinity", "-Infinity", "number"}
Missing == [kind |-> "missing", tenths |-> 0]
Num(t) == [kind |-> "number", tenths |-> t]
NoRaw == [maxRlmSliceLines |-> Missing, grepRequiredThresholdLines |-> Missing]

\* src: resolveConfig -- the range of maxRlmSliceLines and the lower end of
\* grepRequiredThresholdLines; CONFIG_DEFAULTS -- the two fallbacks
MinSliceLines == 10
MaxSliceLines == 2000
MinThresholdLines == 1
DefaultSliceLines == 200
DefaultThresholdLines == 120
DefaultLimits == [maxRlmSliceLines |-> DefaultSliceLines,
                  grepRequiredThresholdLines |-> DefaultThresholdLines]

\* src: Math.trunc on a finite number
Trunc(t) == IF t >= 0 THEN t \div 10 ELSE 0 - ((0 - t) \div 10)
MinOf(a, b) == IF a <= b THEN a ELSE b
MaxOf(a, b) == IF a >= b THEN a ELSE b

toBoundedIntNoFloor(value, fallback, min, max) ==
    LET candidate == IF value.kind = "number" THEN value.tenths ELSE fallback * 10
        n == Trunc(candidate)
    IN  MinOf(max, n)

\* src: toBoundedInt.  A value that is not a finite number gives way to the
\* fallback; the truncated candidate is clamped to min first and max last.
toBoundedInt(value, fallback, min, max) ==
    LET candidate == IF value.kind = "number" THEN value.tenths ELSE fallback * 10
        n == Trunc(candidate)
    IN  MinOf(max, MaxOf(min, n))

\* src: resolveConfig, the two slice limits
resolveConfig(raw) ==
    LET maxRlmSliceLines == toBoundedInt(raw.maxRlmSliceLines, DefaultSliceLines,
                                         MinSliceLines, MaxSliceLines)
    IN  [maxRlmSliceLines |-> maxRlmSliceLines,
         grepRequiredThresholdLines |->
             toBoundedInt(raw.grepRequiredThresholdLines, DefaultThresholdLines,
                          MinThresholdLines, maxRlmSliceLines)]

\* the raw inputs tried: each field left out, not finite, below its range, at
\* either end, inside and above, with and without a fraction
RawTenths == {0 - 5, 0, 5, 95, 100, 1205, 20000, 20005, 30000}
RawNumbers == {[kind |-> k, tenths |-> 0] : k \in RawKinds \ {"number"}}
                  \cup {Num(t) : t \in RawTenths}
RawConfigs == [maxRlmSliceLines : RawNumbers, grepRequiredThresholdLines : RawNumbers]

\* ---------------------------------------------------------------- initial
\* src: ResolvedConfig -- the fields the model reads
AllConfigs ==
    [enabled : BOOLEAN, autoStartOnMainIdle : BOOLEAN, maxAttempts : 1..MaxAttemptsCfg,
     gate : BOOLEAN, verify : BOOLEAN, subAgentEnabled : BOOLEAN,
     reviewerEnabled : BOOLEAN, reviewerRequireExplicitReady : BOOLEAN,
     reviewerMaxRunsPerAttempt : 1..MaxReviewerRuns]

\* src: CONFIG_DEFAULTS -- the reviewer fields as they are when ralph.json leaves them out
Configs ==
    {c \in AllConfigs : /\ ~c.reviewerEnabled
                        /\ c.reviewerRequireExplicitReady
                        /\ c.reviewerMaxRunsPerAttempt = 1}

InitRest(C, P, B) ==
    /\ cfg \in C
    /\ planExists \in P
    /\ sessionId = None
    /\ attempt = 0
    /\ currentRalphSessionId = None
    /\ currentWorkerSessionId = None
    /\ done = FALSE
    /\ paused = FALSE
    /\ lastMainIdleRecent = FALSE
    /\ activeReviewer = NoReview
    /\ reviewRequested = {}
    /\ reviewerRuns = NoRuns
    /\ reviewerDisk = NoSnap
    /\ sessionMap = [id \in SessionIds |-> NoSession]
    /\ nextId = FirstChildId
    /\ handlers = [h \in Slots |-> Free]
    /\ calls = B
    /\ loadCalled = {}
    /\ created = [id \in ChildIds |-> <<"none", 0>>]
    /\ verdicts = <<>>
    /\ rollovers = 0
    /\ gateLog = [tool |-> "none", role |-> "none", called |-> FALSE, allowed |-> TRUE]
    /\ activeCommands = {}
    /\ commands = [c \in CmdIds |-> NoCommand]
    /\ agentDocs = {}
    /\ agentDone = {}
    /\ awaitLog = [name |-> <<>>, status |-> "none"]
    /\ pending = NoPending
    /\ asks = [q \in QIds |-> NoAsk]
    /\ responds = [r \in RespondIds |-> NoRespond]
    /\ writers = <<>>
    /\ reviewStarts = <<>>
    /\ reviewReply = "none"
    /\ reviewerDone = {}
    /\ lastToast = "none"
    /\ idleDropped = {}

\* src: loadConfig without a ralph.json -- CONFIG_DEFAULTS
InitWith(C, P, B) ==
    /\ InitRest(C, P, B)
    /\ rawConfig = NoRaw
    /\ limits = DefaultLimits

\* ------------------------------------------------------------ session spawn
\* src: spawnRalphSession, after `await client.session.create` returned an id
SpawnRalphCreated(h) ==
    /\ At(h, "ralph_create")
    /\ nextId <= MaxId
    /\ currentRalphSessionId' = nextId
    /\ sessionMap' = [sessionMap EXCEPT ![nextId] = freshSession("ralph", handlers[h].att)]
    /\ created' = [created EXCEPT ![nextId] = <<"ralph", handlers[h].att>>]
    /\ nextId' = nextId + 1
    /\ Finish(h)
    /\ UNCHANGED <<cfg, planExists, sessionId, attempt, currentWorkerSessionId, done, paused,
                   lastMainIdleRecent, revVars, calls, loadCalled, verdicts, rollovers, gateLog, envVars>>

\* src: spawnRalphSession / spawnRlmWorker, `await client.session.create` rejects:
\* the error propagates out of the handler, nothing is registered
SpawnCreateFailed(h) ==
    /\ handlers[h].pc \in {"ralph_create", "worker_create", "sub_create"}
    /\ Finish(h)
    /\ UNCHANGED <<cfg, planExists, supVars, revVars, sessionMap, nextId, histVars, gateLog, envVars>>

\* src: spawnRlmWorker, after `await client.session.create` returned an id
SpawnWorkerCreated(h) ==
    /\ At(h, "worker_create")
    /\ nextId <= MaxId
    /\ currentWorkerSessionId' = nextId
    /\ sessionMap' = [sessionMap EXCEPT ![nextId] = freshSession("worker", handlers[h].att)]
    /\ created' = [created EXCEPT ![nextId] = <<"worker", handlers[h].att>>]
    /\ nextId' = nextId + 1
    /\ Finish(h)
    /\ UNCHANGED <<cfg, planExists, sessionId, attempt, currentRalphSessionId, done, paused,
                   lastMainIdleRecent, revVars, calls, loadCalled, verdicts, rollovers, gateLog, envVars>>

\* src: tool_ralph_spawn_worker_impl, called by session sid
SpawnWorkerCall(sid) ==
    /\ Delivered
    /\ FreeSlots # {}
    /\ sessionMap[sid].role = "ralph"
    /\ ~sessionMap[sid].workerSpawned
    /\ sessionMap' = [sessionMap EXCEPT ![sid].workerSpawned = TRUE]
    /\ Suspend("worker_create", sid, sessionMap[sid].attempt, {})
    /\ UNCHANGED <<cfg, planExists, supVars, revVars, nextId, histOnly, gateLog, envVars>>

\* --------------------------------------------------------- session.idle event
\* src: event(session.idle), up to `await emitHeartbeatWarnings()`
EventIdle(sid) ==
    /\ Delivered
    /\ FreeSlots # {}
    /\ ~(done \/ paused)
    /\ Suspend("idle_route", sid, 0, {})
    /\ UNCHANGED <<cfg, planExists, supVars, revVars, sessionMap, nextId, histOnly, gateLog, envVars>>

\* src: event(session.idle), `if (supervisor.done || supervisor.paused) return;`
\* -- the session has stopped and its one idle event is ignored
EventIdleIgnored(sid) ==
    /\ Delivered
    /\ done \/ paused
    /\ sid \notin idleDropped
    /\ idleDropped' = idleDropped \cup {sid}
    /\ UNCHANGED <<cfg, planExists, supVars, revVars, sessionMap, nextId, handlers, histOnly,
                   gateLog, activeCommands, commands, agentDocs, agentDone, awaitLog, qaVars,
                   reviewHist, lastToast, rawConfig, limits>>

\* src: event(session.idle) routing + handleWorkerIdle up to `await run(getConfig())`
IdleRouteWorker(h) ==
    /\ At(h, "idle_route")
    /\ currentWorkerSessionId = handlers[h].sid
    /\ IF done THEN Finish(h) ELSE Goto(h, "worker_cfg")
    /\ UNCHANGED <<cfg, planExists, supVars, revVars, sessionMap, nextId, histVars, gateLog, envVars>>

\* src: handleWorkerIdle, from the config read to `await runAndParseVerify()`
WorkerIdleClear(h) ==
    /\ At(h, "worker_cfg")
    /\ IF ~cfg.enabled \/ ~cfg.autoStartOnMainIdle
         THEN /\ Finish(h)
              /\ UNCHANGED currentWorkerSessionId
         ELSE /\ currentWorkerSessionId' = None
              /\ Goto(h, "worker_verify")
    /\ UNCHANGED <<cfg, planExists, sessionId, attempt, currentRalphSessionId, done, paused,
                   lastMainIdleRecent, revVars, sessionMap, nextId, histVars, gateLog, envVars>>

\* src: runVerify / runAndParseVerify -- the verdicts a verification run can return
VerifyOutcomes == IF cfg.verify THEN {"pass", "fail", "unknown"} ELSE {"unknown"}

\* variant of WorkerIdleVerdict that ends the loop on every verdict other than fail
WorkerIdleVerdictUnknownPasses(h, v) ==
    /\ At(h, "worker_verify")
    /\ v \in VerifyOutcomes
    /\ verdicts' = Append(verdicts, v)
    /\ IF v # "fail"
         THEN /\ done' = TRUE
              /\ Finish(h)
         ELSE /\ UNCHANGED done
              /\ IF attempt >= cfg.maxAttempts
                   THEN Finish(h)
                   ELSE handlers' = [handlers EXCEPT ![h].pc = "worker_next", ![h].verdict = v]
    /\ UNCHANGED <<cfg, planExists, sessionId, attempt, currentRalphSessionId,
                   currentWorkerSessionId, paused, lastMainIdleRecent, revVars, sessionMap,
                   nextId, calls, loadCalled, created, rollovers, gateLog, envVars>>

\* src: handleWorkerIdle, from the verdict to the return (pass, max attempts) or to
\* the `await notifySupervisor("... Preparing next attempt.")`
WorkerIdleVerdict(h, v) ==
    /\ At(h, "worker_verify")
    /\ v \in VerifyOutcomes
    /\ verdicts' = Append(verdicts, v)
    /\ IF v = "pass"
         THEN /\ done' = TRUE
              /\ Finish(h)
         ELSE /\ UNCHANGED done
              /\ IF attempt >= cfg.maxAttempts
                   THEN Finish(h)
                   ELSE handlers' = [handlers EXCEPT ![h].pc = "worker_next", ![h].verdict = v]
    /\ UNCHANGED <<cfg, planExists, sessionId, attempt, currentRalphSessionId,
                   currentWorkerSessionId, paused, lastMainIdleRecent, revVars, sessionMap,
                   nextId, calls, loadCalled, created, rollovers, gateLog, envVars>>

\* src: handleWorkerIdle, `supervisor.attempt += 1` up to `await rolloverState(...)`
WorkerIdleIncrement(h) ==
    /\ At(h, "worker_next")
    /\ attempt' = attempt + 1
    /\ rollovers' = rollovers + 1
    /\ Goto(h, "worker_rollover")
    /\ UNCHANGED <<cfg, planExists, sessionId, currentRalphSessionId, currentWorkerSessionId,
                   done, paused, lastMainIdleRecent, revVars, sessionMap, nextId, calls,
                   loadCalled, created, verdicts, gateLog, envVars>>

\* src: handleWorkerIdle, after the rollover: spawnRalphSession(supervisor.attempt)
\* up to its `await client.session.create`
WorkerIdleRespawn(h) ==
    /\ At(h, "worker_rollover")
    /\ GotoAtt(h, "ralph_create", attempt)
    /\ UNCHANGED <<cfg, planExists, supVars, revVars, sessionMap, nextId, histVars, gateLog, envVars>>

\* src: event(session.idle) routing + handleRalphSessionIdle
IdleRouteRalph(h) ==
    /\ At(h, "idle_route")
    /\ currentWorkerSessionId # handlers[h].sid
    /\ currentRalphSessionId = handlers[h].sid
    /\ currentRalphSessionId' = IF done THEN currentRalphSessionId ELSE None
    /\ lastToast' = IF ~done /\ ~sessionMap[handlers[h].sid].workerSpawned
                      THEN "Ralph: no worker spawned"
                      ELSE lastToast
    /\ Finish(h)
    /\ UNCHANGED <<cfg, planExists, sessionId, attempt, currentWorkerSessionId, done, paused,
                   lastMainIdleRecent, revVars, sessionMap, nextId, histVars, gateLog,
                   activeCommands, commands, agentDocs, agentDone, awaitLog, qaVars, reviewHist,
                   idleDropped, rawConfig, limits>>

\* src: event(session.idle) routing + handleMainIdle up to `await run(getConfig())`
IdleRouteMain(h) ==
    /\ At(h, "idle_route")
    /\ currentWorkerSessionId # handlers[h].sid
    /\ currentRalphSessionId # handlers[h].sid
    /\ IF done \/ paused \/ currentRalphSessionId # None \/ currentWorkerSessionId # None
         THEN Finish(h)
         ELSE Goto(h, "main_cfg")
    /\ UNCHANGED <<cfg, planExists, supVars, revVars, sessionMap, nextId, histVars, gateLog, envVars>>

\* src: handleMainIdle, from the config read to `await checkSetup(...)`
MainIdleBind(h) ==
    /\ At(h, "main_cfg")
    /\ IF ~cfg.enabled \/ lastMainIdleRecent
         THEN /\ Finish(h)
              /\ UNCHANGED <<lastMainIdleRecent, sessionId>>
         ELSE /\ lastMainIdleRecent' = TRUE
              /\ IF sessionId = None
                   THEN /\ sessionId' = handlers[h].sid
                        /\ Goto(h, "main_setup")
                   ELSE /\ UNCHANGED sessionId
                        /\ IF handlers[h].sid # sessionId THEN Finish(h) ELSE Goto(h, "main_setup")
    /\ UNCHANGED <<cfg, planExists, attempt, currentRalphSessionId, currentWorkerSessionId,
                   done, paused, revVars, sessionMap, nextId, histVars, gateLog, envVars>>

\* src: handleMainIdle, from the setup diagnostics to spawnRalphSession(1)'s
\* `await client.session.create`
MainIdleStart(h) ==
    /\ At(h, "main_setup")
    /\ IF ~SetupReady
         THEN /\ Finish(h)
              /\ UNCHANGED attempt
         ELSE /\ attempt' = 1
              /\ GotoAtt(h, "ralph_create", 1)
    /\ UNCHANGED <<cfg, planExists, sessionId, currentRalphSessionId, currentWorkerSessionId,
                   done, paused, lastMainIdleRecent, revVars, sessionMap, nextId, histVars,
                   gateLog, envVars>>

\* src: handleMainIdle debounce -- 800 ms pass since supervisor.lastMainIdleAt
DebounceElapsed ==
    /\ lastMainIdleRecent
    /\ lastMainIdleRecent' = FALSE
    /\ UNCHANGED <<cfg, planExists, sessionId, attempt, currentRalphSessionId,
                   currentWorkerSessionId, done, paused, revVars, sessionMap, nextId, handlers,
                   histVars, gateLog, envVars>>

\* --------------------------------------------- ralph_create_supervisor_session
CreateArgs == SUBSET {"start_loop", "force_rebind", "restart_if_done"}

\* src: tool_ralph_create_supervisor_session, up to `await run(getConfig())`
CreateSupervisorCall(sid, arg) ==
    /\ Delivered
    /\ FreeSlots # {}
    /\ arg \in CreateArgs
    /\ Suspend("create_cfg", sid, 0, arg)
    /\ UNCHANGED <<cfg, planExists, supVars, revVars, sessionMap, nextId, histOnly, gateLog, envVars>>

\* src: tool_ralph_create_supervisor_session, the binding check and the bind,
\* up to `await checkSetup(root, cfg)`
CreateSupervisorBind(h) ==
    /\ At(h, "create_cfg")
    /\ IF sessionId # None /\ sessionId # handlers[h].sid /\ "force_rebind" \notin handlers[h].arg
         THEN /\ Finish(h)
              /\ UNCHANGED <<sessionId, paused>>
         ELSE /\ sessionId' = handlers[h].sid
              /\ paused' = FALSE
              /\ Goto(h, "create_setup")
    /\ UNCHANGED <<cfg, planExists, attempt, currentRalphSessionId, currentWorkerSessionId,
                   done, lastMainIdleRecent, revVars, sessionMap, nextId, histVars, gateLog, envVars>>

\* src: tool_ralph_create_supervisor_session, the "already running or completed"
\* check and `supervisor.attempt = 1`, up to spawnRalphSession(1)'s create
CreateStartOrSkip(h, isDone, ralph, worker) ==
    IF ralph # None \/ worker # None \/ isDone
      THEN /\ Finish(h)
           /\ UNCHANGED attempt
      ELSE /\ attempt' = 1
           /\ GotoAtt(h, "ralph_create", 1)

\* src: tool_ralph_create_supervisor_session, from the setup diagnostics on
CreateSupervisorStart(h) ==
    /\ At(h, "create_setup")
    /\ IF ~SetupReady \/ "start_loop" \notin handlers[h].arg
         THEN /\ Finish(h)
              /\ UNCHANGED <<attempt, done, paused, currentRalphSessionId,
                             currentWorkerSessionId, activeReviewer>>
         ELSE IF done /\ "restart_if_done" \in handlers[h].arg
         THEN /\ done' = FALSE
              /\ paused' = FALSE
              /\ currentRalphSessionId' = None
              /\ currentWorkerSessionId' = None
              /\ activeReviewer' = NoReview
              /\ handlers' = [handlers EXCEPT ![h].pc = "create_persist",
                                  ![h].snap = [ReviewerPayload EXCEPT !.active = NoReview]]
              /\ UNCHANGED attempt
         ELSE /\ CreateStartOrSkip(h, done, currentRalphSessionId, currentWorkerSessionId)
              /\ UNCHANGED <<done, paused, currentRalphSessionId, currentWorkerSessionId,
                             activeReviewer>>
    /\ UNCHANGED <<cfg, planExists, sessionId, lastMainIdleRecent, reviewRequested,
                   reviewerRuns, reviewerDisk, sessionMap, nextId, histVars, gateLog, envVars>>

\* src: tool_ralph_create_supervisor_session, after `await persistReviewerState()`
\* of the restart_if_done branch
CreateSupervisorRestarted(h) ==
    /\ At(h, "create_persist")
    /\ reviewerDisk' = handlers[h].snap
    /\ CreateStartOrSkip(h, done, currentRalphSessionId, currentWorkerSessionId)
    /\ UNCHANGED <<cfg, planExists, sessionId, currentRalphSessionId, currentWorkerSessionId,
                   done, paused, lastMainIdleRecent, activeReviewer, reviewRequested,
                   reviewerRuns, sessionMap, nextId, histVars, gateLog, envVars>>

\* ------------------------------------------------- runCommand and runVerify
\* src: stopCommand(cmd, reason); child.kill() sets child.killed only when the
\* signal was delivered to a spawned process
stopCommand(cmd, reason) ==
    IF cmd.killed THEN cmd
    ELSE [cmd EXCEPT !.timedOut = cmd.timedOut \/ reason = "timeout",
                     !.killed = (cmd.proc = "alive"),
                     !.killTimer = TRUE]

\* src: stopAllCommands(reason)
stopAllCommands(reason) ==
    [c \in CmdIds |-> IF c \in activeCommands THEN stopCommand(commands[c], reason)
                                              ELSE commands[c]]

\* what spawn(...) does: returns a running child, returns a child whose spawn
\* failed (reported by the "error" event), or throws
SpawnOutcomes == {"child", "error", "throws"}

\* src: tool_ralph_verify -> runVerify, up to the promise of runCommand: the
\* missing-command return, spawn, activeCommands.add(entry), the timeout timer.
\* A throw inside the promise executor rejects the promise: Effect.tryPromise
\* fails and Effect.orElseSucceed returns the "unknown" verdict.
RunVerify(c, outcome, timeout) ==
    /\ Delivered
    /\ commands[c].st = "idle"
    /\ outcome \in SpawnOutcomes
    /\ timeout \in BOOLEAN
    /\ IF ~cfg.verify
         THEN /\ commands' = [commands EXCEPT ![c].st = "returned", ![c].verdict = "unknown"]
              /\ UNCHANGED activeCommands
         ELSE IF outcome = "throws"
                THEN /\ commands' = [commands EXCEPT ![c].st = "returned",
                                         ![c].exit = "thrown", ![c].verdict = "unknown"]
                     /\ UNCHANGED activeCommands
                ELSE /\ commands' = [commands EXCEPT ![c].st = "running",
                                         ![c].proc = IF outcome = "child" THEN "alive" ELSE "failed",
                                         ![c].timeoutTimer = timeout]
                     /\ activeCommands' = activeCommands \cup {c}
    /\ UNCHANGED <<cfg, planExists, supVars, revVars, sessionMap, nextId, handlers, histOnly,
                   gateLog, agentDocs, fileVars>>

\* src: runCommand, the timeoutTimer callback -- stopCommand(entry, "timeout")
CommandTimeout(c) ==
    /\ commands[c].st = "running"
    /\ commands[c].timeoutTimer
    /\ commands' = [commands EXCEPT
                        ![c] = [stopCommand(@, "timeout") EXCEPT !.timeoutTimer = FALSE]]
    /\ UNCHANGED <<cfg, planExists, supVars, revVars, sessionMap, nextId, handlers, histVars,
                   gateLog, activeCommands, agentDocs, fileVars>>

\* src: stopCommand, the killTimer callback -- child.kill("SIGKILL") after 2 s
CommandKillTimer(c) ==
    /\ commands[c].st = "running"
    /\ commands[c].killTimer
    /\ commands' = [commands EXCEPT ![c].killTimer = FALSE]
    /\ UNCHANGED <<cfg, planExists, supVars, revVars, sessionMap, nextId, handlers, histVars,
                   gateLog, activeCommands, agentDocs, fileVars>>

\* src: runVerify, the mapping of runCommand's result to the verdict
VerifyVerdict(ok) == IF ok THEN "pass" ELSE "fail"

\* src: runCommand, child.on("error") -- resolves { ok: false, code: null }
CommandError(c) ==
    /\ commands[c].st = "running"
    /\ commands[c].proc = "failed"
    /\ activeCommands' = activeCommands \ {c}
    /\ commands' = [commands EXCEPT ![c].st = "returned", ![c].exit = "error",
                        ![c].timeoutTimer = FALSE, ![c].killTimer = FALSE,
                        ![c].verdict = VerifyVerdict(FALSE)]
    /\ UNCHANGED <<cfg, planExists, supVars, revVars, sessionMap, nextId, handlers, histVars,
                   gateLog, agentDocs, fileVars>>

\* the codes a child can close with: 0, non-zero, or null when a signal ended it
ExitCodes == {0, 1, NoCode}

\* variant of CommandClose that leaves the entry in activeCommands
CommandCloseKeepsEntry(c, code) ==
    /\ commands[c].st = "running"
    /\ commands[c].proc = "alive"
    /\ code \in ExitCodes
    /\ code = NoCode => commands[c].killed
    /\ UNCHANGED activeCommands
    /\ commands' = [commands EXCEPT ![c].st = "returned", ![c].exit = "close",
                        ![c].code = code,
                        ![c].timeoutTimer = FALSE, ![c].killTimer = FALSE,
                        ![c].verdict = VerifyVerdict(code = 0 /\ ~commands[c].timedOut)]
    /\ UNCHANGED <<cfg, planExists, supVars, revVars, sessionMap, nextId, handlers, histVars,
                   gateLog, agentDocs, fileVars>>

\* src: runCommand, child.on("close") -- ok: code === 0 && !entry.timedOut
CommandClose(c, code) ==
    /\ commands[c].st = "running"
    /\ commands[c].proc = "alive"
    /\ code \in ExitCodes
    /\ code = NoCode => commands[c].killed
    /\ activeCommands' = activeCommands \ {c}
    /\ commands' = [commands EXCEPT ![c].st = "returned", ![c].exit = "close",
                        ![c].code = code,
                        ![c].timeoutTimer = FALSE, ![c].killTimer = FALSE,
                        ![c].verdict = VerifyVerdict(code = 0 /\ ~commands[c].timedOut)]
    /\ UNCHANGED <<cfg, planExists, supVars, revVars, sessionMap, nextId, handlers, histVars,
                   gateLog, agentDocs, fileVars>>

\* ------------------------------------------------------ ralph_end_supervision
\* src: tool_ralph_end_supervision, from stopAllCommands to `await persistReviewerState()`
EndClear(h) ==
    /\ commands' = stopAllCommands("supervision-ended")
    /\ sessionMap' = [id \in SessionIds |-> NoSession]
    /\ currentRalphSessionId' = None
    /\ currentWorkerSessionId' = None
    /\ activeReviewer' = NoReview
    /\ handlers' = [handlers EXCEPT ![h].pc = "end_persist",
                        ![h].snap = [ReviewerPayload EXCEPT !.active = NoReview]]

\* src: tool_ralph_end_supervision, up to the first `await client.session.abort`
\* (with no tracked session the loop body never awaits)
EndSupervisionCall(sid, arg) ==
    /\ Delivered
    /\ FreeSlots # {}
    /\ arg \in SUBSET {"clear_binding"}
    /\ done' = TRUE
    /\ paused' = TRUE
    /\ IF \E id \in SessionIds : Registered(id)
         THEN /\ Suspend("end_abort", sid, 0, arg)
              /\ UNCHANGED <<sessionMap, currentRalphSessionId, currentWorkerSessionId,
                             activeReviewer, commands>>
         ELSE /\ commands' = stopAllCommands("supervision-ended")
              /\ sessionMap' = [id \in SessionIds |-> NoSession]
              /\ currentRalphSessionId' = None
              /\ currentWorkerSessionId' = None
              /\ activeReviewer' = NoReview
              /\ handlers' = [handlers EXCEPT ![NewSlot] =
                     [pc |-> "end_persist", sid |-> sid, att |-> 0, arg |-> arg,
                      verdict |-> "none",
                      snap |-> [ReviewerPayload EXCEPT !.active = NoReview],
                      child |-> None]]
    /\ UNCHANGED <<cfg, planExists, sessionId, attempt, lastMainIdleRecent, reviewRequested,
                   reviewerRuns, reviewerDisk, nextId, histOnly, gateLog, activeCommands,
                   agentDocs, fileVars>>

\* src: tool_ralph_end_supervision, after the abort loop
EndSupervisionAborted(h) ==
    /\ At(h, "end_abort")
    /\ EndClear(h)
    /\ UNCHANGED <<cfg, planExists, sessionId, attempt, done, paused, lastMainIdleRecent,
                   reviewRequested, reviewerRuns, reviewerDisk, nextId, histVars, gateLog,
                   activeCommands, agentDocs, fileVars>>

\* src: tool_ralph_end_supervision, after `await persistReviewerState()`
EndSupervisionPersisted(h) ==
    /\ At(h, "end_persist")
    /\ reviewerDisk' = handlers[h].snap
    /\ sessionId' = IF "clear_binding" \in handlers[h].arg THEN None ELSE sessionId
    /\ Finish(h)
    /\ UNCHANGED <<cfg, planExists, attempt, currentRalphSessionId, currentWorkerSessionId,
                   done, paused, lastMainIdleRecent, activeReviewer, reviewRequested,
                   reviewerRuns, sessionMap, nextId, histVars, gateLog, envVars>>

\* --------------------------------------------- ralph_pause / ralph_resume
\* src: tool_ralph_pause_supervision
PauseSupervision ==
    /\ Delivered
    /\ ~paused
    /\ paused' = TRUE
    /\ UNCHANGED <<cfg, planExists, sessionId, attempt, currentRalphSessionId,
                   currentWorkerSessionId, done, lastMainIdleRecent, revVars, sessionMap,
                   nextId, handlers, histOnly, gateLog, envVars>>

\* src: tool_ralph_resume_supervision, up to `await notifySupervisor(...)`
ResumeSupervisionCall(sid, arg) ==
    /\ Delivered
    /\ FreeSlots # {}
    /\ arg \in SUBSET {"start_loop"}
    /\ sessionId' = IF sessionId = None THEN sid ELSE sessionId
    /\ paused' = FALSE
    /\ Suspend("resume_notify", sid, 0, arg)
    /\ UNCHANGED <<cfg, planExists, attempt, currentRalphSessionId, currentWorkerSessionId,
                   done, lastMainIdleRecent, revVars, sessionMap, nextId, histOnly, gateLog, envVars>>

\* src: Math.max(1, supervisor.attempt || 1)
ResumeAttempt(a) == IF a = 0 THEN 1 ELSE IF a > 1 THEN a ELSE 1

\* src: tool_ralph_resume_supervision, from shouldStart to spawnRalphSession's create
ResumeSupervisionStart(h) ==
    /\ At(h, "resume_notify")
    /\ IF \/ "start_loop" \notin handlers[h].arg
          \/ done
          \/ currentRalphSessionId # None
          \/ currentWorkerSessionId # None
         THEN /\ Finish(h)
              /\ UNCHANGED attempt
         ELSE /\ attempt' = ResumeAttempt(attempt)
              /\ GotoAtt(h, "ralph_create", ResumeAttempt(attempt))
    /\ UNCHANGED <<cfg, planExists, sessionId, currentRalphSessionId, currentWorkerSessionId,
                   done, paused, lastMainIdleRecent, revVars, sessionMap, nextId, histVars,
                   gateLog, envVars>>

\* ----------------------------------------------------------- ralph_reset_state
\* src: tool_ralph_reset_state, the token check and the protocol file writes
\* (scope "full" rewrites PLAN.md)
ResetStateCall(sid, arg) ==
    /\ Delivered
    /\ FreeSlots # {}
    /\ arg \in SUBSET {"confirm", "full"}
    /\ "confirm" \in arg
    /\ Suspend("reset_files", sid, 0, arg)
    /\ UNCHANGED <<cfg, planExists, supVars, revVars, sessionMap, nextId, histOnly, gateLog, envVars>>

\* src: tool_ralph_reset_state, from `supervisor.done = false` to
\* `await persistReviewerState()`
ResetStateClear(h) ==
    /\ At(h, "reset_files")
    /\ planExists' = IF "full" \in handlers[h].arg THEN TRUE ELSE planExists
    /\ done' = FALSE
    /\ paused' = FALSE
    /\ attempt' = 0
    /\ currentRalphSessionId' = None
    /\ currentWorkerSessionId' = None
    /\ activeReviewer' = NoReview
    /\ handlers' = [handlers EXCEPT ![h].pc = "reset_persist",
                        ![h].snap = [ReviewerPayload EXCEPT !.active = NoReview]]
    /\ UNCHANGED <<cfg, sessionId, lastMainIdleRecent, reviewRequested, reviewerRuns,
                   reviewerDisk, sessionMap, nextId, histVars, gateLog, envVars>>

\* src: tool_ralph_reset_state, after `await persistReviewerState()`
ResetStatePersisted(h) ==
    /\ At(h, "reset_persist")
    /\ reviewerDisk' = handlers[h].snap
    /\ reviewRequested' = {}
    /\ reviewerRuns' = NoRuns
    /\ Finish(h)
    /\ UNCHANGED <<cfg, planExists, supVars, activeReviewer, sessionMap, nextId, histVars,
                   gateLog, envVars>>

\* -------------------------------------------------------- ralph_quickstart_wizard
\* src: tool_ralph_quickstart_wizard, up to the first file-system await
QuickstartCall(sid, arg) ==
    /\ Delivered
    /\ FreeSlots # {}
    /\ arg \in SUBSET {"start_loop", "overwrite_plan"}
    /\ Suspend("wizard_files", sid, 0, arg)
    /\ UNCHANGED <<cfg, planExists, supVars, revVars, sessionMap, nextId, histOnly, gateLog, envVars>>

\* src: tool_ralph_quickstart_wizard, the PLAN.md existence check and write
QuickstartPlan(h) ==
    /\ At(h, "wizard_files")
    /\ IF planExists /\ "overwrite_plan" \notin handlers[h].arg
         THEN /\ Finish(h)
              /\ UNCHANGED planExists
         ELSE /\ planExists' = TRUE
              /\ Goto(h, "wizard_plan")
    /\ UNCHANGED <<cfg, supVars, revVars, sessionMap, nextId, histVars, gateLog, envVars>>

\* src: tool_ralph_quickstart_wizard, the start_loop block up to
\* spawnRalphSession(1)'s create
QuickstartStart(h) ==
    /\ At(h, "wizard_plan")
    /\ IF "start_loop" \in handlers[h].arg
         THEN /\ sessionId' = handlers[h].sid
              /\ done' = FALSE
              /\ paused' = FALSE
              /\ attempt' = 1
              /\ GotoAtt(h, "ralph_create", 1)
         ELSE /\ Finish(h)
              /\ UNCHANGED <<sessionId, done, paused, attempt>>
    /\ UNCHANGED <<cfg, planExists, currentRalphSessionId, currentWorkerSessionId,
                   lastMainIdleRecent, revVars, sessionMap, nextId, histVars, gateLog, envVars>>

\* ------------------------------------------- session.closed / ended / deleted
\* src: clearSessionTracking
SessionEnded(sid) ==
    /\ Delivered
    /\ Registered(sid)
    /\ sessionMap' = [sessionMap EXCEPT ![sid] = NoSession]
    /\ currentRalphSessionId' = IF currentRalphSessionId = sid THEN None ELSE currentRalphSessionId
    /\ currentWorkerSessionId' = IF currentWorkerSessionId = sid THEN None ELSE currentWorkerSessionId
    /\ IF activeReviewer.sessionId = sid
         THEN /\ FreeSlots # {}
              /\ activeReviewer' = NoReview
              /\ handlers' = [handlers EXCEPT ![NewSlot] =
                     [pc |-> "ended_persist", sid |-> sid, att |-> 0, arg |-> {},
                      verdict |-> "none",
                      snap |-> [ReviewerPayload EXCEPT !.active = NoReview],
                      child |-> None]]
         ELSE UNCHANGED <<activeReviewer, handlers>>
    /\ UNCHANGED <<cfg, planExists, sessionId, attempt, done, paused, lastMainIdleRecent,
                   reviewRequested, reviewerRuns, reviewerDisk, nextId, histOnly,
                   gateLog, envVars>>

\* src: clearSessionTracking, after `await persistReviewerState()`
SessionEndedPersisted(h) ==
    /\ At(h, "ended_persist")
    /\ reviewerDisk' = handlers[h].snap
    /\ Finish(h)
    /\ UNCHANGED <<cfg, planExists, supVars, activeReviewer, reviewRequested, reviewerRuns,
                   sessionMap, nextId, histVars, gateLog, envVars>>

\* ------------------------------------------------------------ protocol gate
GatedRoles == {"worker", "subagent"}

\* the gate with sub-task sessions left out of the gated roles
GateAllowsWorkerOnly(state, toolName) ==
    IF ~cfg.gate THEN TRUE
    ELSE IF state.role # "worker" THEN TRUE
    ELSE IF toolName \in SAFE_TOOLS THEN TRUE
    ELSE IF toolName \notin DESTRUCTIVE_TOOLS THEN TRUE
    ELSE state.loadedContext

\* the gate without the "not destructive" exemption: everything not safe is gated
GateAllowsSafeOnly(state, toolName) ==
    IF ~cfg.gate THEN TRUE
    ELSE IF state.role \notin GatedRoles THEN TRUE
    ELSE IF toolName \in SAFE_TOOLS THEN TRUE
    ELSE state.loadedContext

\* src: "tool.execute.before" -- TRUE iff the hook returns without throwing
GateAllows(state, toolName) ==
    IF ~cfg.gate THEN TRUE
    ELSE IF state.role \notin GatedRoles THEN TRUE
    ELSE IF toolName \in SAFE_TOOLS THEN TRUE
    ELSE IF toolName \notin DESTRUCTIVE_TOOLS THEN TRUE
    ELSE state.loadedContext

\* src: "tool.execute.before" for a call of toolName by session sid
ToolExecuteBefore(sid, toolName) ==
    /\ Delivered
    /\ toolName \in ToolNames
    /\ gateLog' = [tool |-> toolName, role |-> sessionMap[sid].role,
                   called |-> sid \in loadCalled,
                   allowed |-> GateAllows(sessionMap[sid], toolName)]
    /\ UNCHANGED <<cfg, planExists, supVars, revVars, sessionMap, nextId, handlers, histOnly,
                   envVars>>

\* src: tool_ralph_load_context -- mutateSession(sessionID, s => s.loadedContext = true)
LoadContext(sid) ==
    /\ Delivered
    /\ sessionMap' = [getSessionMap(sid) EXCEPT ![sid].loadedContext = TRUE]
    /\ loadCalled' = loadCalled \cup {sid}
    /\ UNCHANGED <<cfg, planExists, supVars, revVars, nextId, handlers, created, verdicts,
                   rollovers, gateLog, envVars>>

\* ------------------------------------------------------------ subagent_spawn
\* characters of a sub-agent name: representatives of the classes a-z, A-Z, 0-9,
\* the underscore and the hyphen, and two characters outside them
Letters == {"a", "Z"}
Digits == {"7"}
AllowedChars == Letters \cup Digits \cup {"_", "-"}

\* src: /^[a-zA-Z0-9_-]+$/.test(args.name); a name is a sequence of characters
ValidName(name) ==
    /\ Len(name) > 0
    /\ \A i \in 1..Len(name) : name[i] \in AllowedChars

\* the name a subagent_spawn handler was called with
NameOf(h) == CHOOSE name \in handlers[h].arg : TRUE

\* src: st.subAgents.filter((a) => a.status === "running")
RunningSubAgents(st) ==
    {i \in 1..Len(st.subAgents) : st.subAgents[i].status = "running"}

\* src: tool_subagent_spawn, up to `await run(getConfig())`
SubagentSpawnCall(sid, name) ==
    /\ Delivered
    /\ FreeSlots # {}
    /\ Suspend("sub_cfg", sid, 0, {name})
    /\ UNCHANGED <<cfg, planExists, supVars, revVars, sessionMap, nextId, histOnly, gateLog, envVars>>

\* variant of SubagentSpawnChecked without the test of the name
SubagentSpawnCheckedAnyName(h) ==
    /\ At(h, "sub_cfg")
    /\ sessionMap' = getSessionMap(handlers[h].sid)
    /\ IF \/ ~cfg.subAgentEnabled
          \/ \E i \in RunningSubAgents(sessionMap'[handlers[h].sid]) :
                 sessionMap'[handlers[h].sid].subAgents[i].name = NameOf(h)
          \/ Cardinality(RunningSubAgents(sessionMap'[handlers[h].sid])) >= MaxSubAgents
         THEN Finish(h)
         ELSE GotoAtt(h, "sub_bootstrap", sessionMap'[handlers[h].sid].attempt)
    /\ UNCHANGED <<cfg, planExists, supVars, revVars, nextId, histVars, gateLog, envVars>>

\* src: tool_subagent_spawn, getSession(sessionID) and the four checks (disabled,
\* invalid name, name already running, cap), up to `await run(bootstrapSubAgent(...))`
SubagentSpawnChecked(h) ==
    /\ At(h, "sub_cfg")
    /\ sessionMap' = getSessionMap(handlers[h].sid)
    /\ IF \/ ~cfg.subAgentEnabled
          \/ ~ValidName(NameOf(h))
          \/ \E i \in RunningSubAgents(sessionMap'[handlers[h].sid]) :
                 sessionMap'[handlers[h].sid].subAgents[i].name = NameOf(h)
          \/ Cardinality(RunningSubAgents(sessionMap'[handlers[h].sid])) >= MaxSubAgents
         THEN Finish(h)
         ELSE GotoAtt(h, "sub_bootstrap", sessionMap'[handlers[h].sid].attempt)
    /\ UNCHANGED <<cfg, planExists, supVars, revVars, nextId, histVars, gateLog, envVars>>

\* src: tool_subagent_spawn, bootstrapSubAgent has written the documents of the
\* name, up to `await client.session.create`
SubagentBootstrapped(h) ==
    /\ At(h, "sub_bootstrap")
    /\ agentDocs' = agentDocs \cup {NameOf(h)}
    /\ Goto(h, "sub_create")
    /\ UNCHANGED <<cfg, planExists, supVars, revVars, sessionMap, nextId, histVars, gateLog,
                   activeCommands, commands, fileVars>>

\* src: tool_subagent_spawn, sessionMap.set(childSessionId, freshSession("subagent",
\* st.attempt)), up to `await client.session.prompt`
SubagentSpawnCreated(h) ==
    /\ At(h, "sub_create")
    /\ nextId <= MaxId
    /\ sessionMap' = [sessionMap EXCEPT ![nextId] = freshSession("subagent", handlers[h].att)]
    /\ created' = [created EXCEPT ![nextId] = <<"subagent", handlers[h].att>>]
    /\ nextId' = nextId + 1
    /\ handlers' = [handlers EXCEPT ![h].pc = "sub_prompt", ![h].child = nextId]
    /\ UNCHANGED <<cfg, planExists, supVars, revVars, calls, loadCalled, verdicts, rollovers,
                   gateLog, envVars>>

\* src: tool_subagent_spawn, after the prompt: mutateSession(sessionID, s =>
\* s.subAgents.push({ sessionId, name, status: "running" }))
SubagentSpawnPrompted(h) ==
    /\ At(h, "sub_prompt")
    /\ sessionMap' = [getSessionMap(handlers[h].sid) EXCEPT
                         ![handlers[h].sid].subAgents =
                             Append(@, [name |-> NameOf(h), sessionId |-> handlers[h].child,
                                        status |-> "running"])]
    /\ Finish(h)
    /\ UNCHANGED <<cfg, planExists, supVars, revVars, nextId, histVars, gateLog, envVars>>

\* src: s.subAgents.find((a) => a.name === name) -- index of the first record
\* with the name, 0 when there is none
FirstNamed(list, name) ==
    IF \E i \in 1..Len(list) : list[i].name = name
      THEN CHOOSE i \in 1..Len(list) :
               list[i].name = name /\ \A j \in 1..(i - 1) : list[j].name # name
      ELSE 0

\* src: tool_subagent_await -- reads CURRENT_STATE.md of the name and, when it
\* holds the done heading or sentinel, marks the caller's first record of the name
SubagentAwait(sid, name) ==
    /\ Delivered
    /\ IF name \notin agentDocs
         THEN /\ awaitLog' = [name |-> name, status |-> "not_found"]
              /\ UNCHANGED sessionMap
         ELSE IF name \in agentDone
                THEN /\ awaitLog' = [name |-> name, status |-> "done"]
                     /\ sessionMap' =
                          LET m == getSessionMap(sid)
                              i == FirstNamed(m[sid].subAgents, name)
                          IN  IF i = 0 THEN m
                              ELSE [m EXCEPT ![sid].subAgents[i].status = "done"]
                ELSE /\ awaitLog' = [name |-> name, status |-> "running"]
                     /\ UNCHANGED sessionMap
    /\ UNCHANGED <<cfg, planExists, supVars, revVars, nextId, handlers, histOnly, gateLog,
                   activeCommands, commands, agentDocs, agentDone, qaVars, toolVars>>

\* src: tool_subagent_spawn -- a session has been created and prompted for the name
TaskStarted(name) ==
    \/ \E h \in Slots : handlers[h].pc = "sub_prompt" /\ NameOf(h) = name
    \/ \E sid \in SessionIds : FirstNamed(sessionMap[sid].subAgents, name) # 0

\* src: templates.subagentPrompt -- a sub-agent finishes by writing the done
\* heading or sentinel into its CURRENT_STATE.md
SubagentWritesDone(name) ==
    /\ TaskStarted(name)
    /\ name \in agentDocs
    /\ name \notin agentDone
    /\ agentDone' = agentDone \cup {name}
    /\ UNCHANGED <<cfg, planExists, supVars, revVars, sessionMap, nextId, handlers, histVars,
                   gateLog, activeCommands, commands, agentDocs, awaitLog, qaVars, toolVars>>

\* ------------------------------------------------- ralph_ask and ralph_respond
\* the number of the next ralph_ask call
NextQuestion == CHOOSE q \in QIds : asks[q].st = "idle" /\ \A p \in QIds : p < q => asks[p].st # "idle"

\* src: Date.now() -- the millisecond clock does not run backwards: a call reads
\* a time that is not before the time the call before it read
LastAskTime ==
    IF \A q \in QIds : asks[q].st = "idle" THEN 0
    ELSE CHOOSE t \in QIds : /\ \E q \in QIds : asks[q].st # "idle" /\ asks[q].id = t
                             /\ \A q \in QIds : asks[q].st # "idle" => asks[q].id <= t

\* src: tool_ralph_ask, getSession(sessionID) and the id `ask-${Date.now()}`, up
\* to `await readPendingInput(root)`
AskCall(sid, now) ==
    /\ Delivered
    /\ \E q \in QIds : asks[q].st = "idle"
    /\ now \in QIds
    /\ now >= LastAskTime
    /\ sessionMap' = getSessionMap(sid)
    /\ asks' = [asks EXCEPT ![NextQuestion].st = "read", ![NextQuestion].sid = sid,
                            ![NextQuestion].id = now]
    /\ UNCHANGED <<cfg, planExists, supVars, revVars, nextId, handlers, histOnly, gateLog,
                   activeCommands, commands, agentDocs, agentDone, awaitLog, toolVars, pending, responds>>

\* src: tool_ralph_ask, `data = await readPendingInput(root)` and
\* data.questions.push(record), up to `await writePendingInput(root, data)`
AskRead(q) ==
    /\ asks[q].st = "read"
    /\ asks' = [asks EXCEPT ![q].st = "write",
                            ![q].snap = [pending EXCEPT !.questions = @ \cup {q}]]
    /\ UNCHANGED <<cfg, planExists, supVars, revVars, sessionMap, nextId, handlers, histVars,
                   gateLog, activeCommands, commands, agentDocs, agentDone, awaitLog, toolVars, pending,
                   responds>>

\* src: tool_ralph_ask, writePendingInput has written data, then the notices, up
\* to the first `await sleep(5000)`
AskWrite(q) ==
    /\ asks[q].st = "write"
    /\ pending' = asks[q].snap
    /\ asks' = [asks EXCEPT ![q].st = "poll", ![q].snap = NoPending]
    /\ UNCHANGED <<cfg, planExists, supVars, revVars, sessionMap, nextId, handlers, histVars,
                   gateLog, activeCommands, commands, agentDocs, agentDone, awaitLog, toolVars, responds>>

\* src: tool_ralph_ask, one iteration of the polling loop: sleep, read, test; after
\* the last iteration without a response the timeout error is thrown
AskPoll(q) ==
    /\ asks[q].st = "poll"
    /\ IF pending.responses[asks[q].id] # NoAnswer
         THEN asks' = [asks EXCEPT ![q].st = "returned", ![q].polls = @ + 1,
                                   ![q].answer = pending.responses[asks[q].id]]
         ELSE asks' = [asks EXCEPT ![q].polls = @ + 1,
                                   ![q].st = IF asks[q].polls + 1 >= MaxPolls THEN "timeout"
                                                                            ELSE "poll"]
    /\ UNCHANGED <<cfg, planExists, supVars, revVars, sessionMap, nextId, handlers, histVars,
                   gateLog, activeCommands, commands, agentDocs, agentDone, awaitLog, toolVars, pending,
                   responds>>

\* the id of the next ralph_respond call
NextRespond ==
    CHOOSE r \in RespondIds : responds[r].st = "idle" /\ \A p \in RespondIds : p < r => responds[p].st # "idle"

\* src: tool_ralph_respond, up to `await readPendingInput(root)`
RespondCall(id, answer) ==
    /\ Delivered
    /\ \E r \in RespondIds : responds[r].st = "idle"
    /\ id \in QIds
    /\ answer \in Answers
    /\ responds' = [responds EXCEPT ![NextRespond].st = "read", ![NextRespond].id = id,
                                    ![NextRespond].answer = answer]
    /\ UNCHANGED <<cfg, planExists, supVars, revVars, sessionMap, nextId, handlers, histOnly,
                   gateLog, activeCommands, commands, agentDocs, agentDone, awaitLog, toolVars, pending,
                   asks>>

\* src: tool_ralph_respond, the error message -- the questions without a response
Unanswered(data) == {q \in data.questions : data.responses[asks[q].id] = NoAnswer}

\* src: tool_ralph_respond, data.questions.find((q) => q.id === args.id)
Known(data, id) == \E q \in data.questions : asks[q].id = id

\* src: tool_ralph_respond, from the read to the unknown-id error or to
\* `await writePendingInput(root, data)`
RespondRead(r) ==
    /\ responds[r].st = "read"
    /\ IF ~Known(pending, responds[r].id)
         THEN responds' = [responds EXCEPT ![r].st = "done", ![r].report = "error",
                                           ![r].listed = Unanswered(pending)]
         ELSE responds' = [responds EXCEPT
                  ![r].st = "write",
                  ![r].report = IF pending.responses[responds[r].id] # NoAnswer
                                  THEN "updated" ELSE "recorded",
                  ![r].snap = [pending EXCEPT !.responses[responds[r].id] = responds[r].answer]]
    /\ UNCHANGED <<cfg, planExists, supVars, revVars, sessionMap, nextId, handlers, histVars,
                   gateLog, activeCommands, commands, agentDocs, agentDone, awaitLog, toolVars, pending,
                   asks>>

\* variant of RespondWrite that keeps a response that is already in the store
RespondWriteKeepsFirst(r) ==
    /\ responds[r].st = "write"
    /\ pending' = IF pending.responses[responds[r].id] # NoAnswer THEN pending
                                                                  ELSE responds[r].snap
    /\ responds' = [responds EXCEPT ![r].st = "done", ![r].snap = NoPending]
    /\ UNCHANGED <<cfg, planExists, supVars, revVars, sessionMap, nextId, handlers, histVars,
                   gateLog, activeCommands, commands, agentDocs, agentDone, awaitLog, toolVars, asks>>

\* src: tool_ralph_respond, writePendingInput has written data, up to the return
RespondWrite(r) ==
    /\ responds[r].st = "write"
    /\ pending' = responds[r].snap
    /\ responds' = [responds EXCEPT ![r].st = "done", ![r].snap = NoPending]
    /\ UNCHANGED <<cfg, planExists, supVars, revVars, sessionMap, nextId, handlers, histVars,
                   gateLog, activeCommands, commands, agentDocs, agentDone, awaitLog, toolVars, asks>>

\* ------------------------------------------------------------ config loading
\* src: .opencode/ralph.json is edited by hand while the plugin runs
ConfigEdited(raw) ==
    /\ raw \in RawConfigs
    /\ rawConfig' = raw
    /\ UNCHANGED <<cfg, planExists, supVars, revVars, sessionMap, nextId, handlers, histVars,
                   gateLog, activeCommands, commands, agentDocs, agentDone, awaitLog, qaVars,
                   reviewHist, lastToast, idleDropped, limits>>

\* src: getConfig past the 10 s cache -- loadConfig decodes the file and
\* returns resolveConfig(decoded)
ConfigLoaded ==
    /\ limits' = resolveConfig(rawConfig)
    /\ UNCHANGED <<cfg, planExists, supVars, revVars, sessionMap, nextId, handlers, histVars,
                   gateLog, activeCommands, commands, agentDocs, agentDone, awaitLog, qaVars,
                   reviewHist, lastToast, idleDropped, rawConfig>>

\* ------------------------------------------------------------ reviewer tools
\* src: the attempt both reviewer tools work on
ReviewAttempt(map, sid) ==
    IF map[sid].attempt > 0 THEN map[sid].attempt ELSE MaxOf(1, attempt)

\* src: markReviewRequested ends with `void persistReviewerState()`: the
\* payload is built at once, the file is written some time later.  These
\* writes reach the disk in the order of their calls, so of several in flight
\* the last one called decides what the file holds: the model keeps that one.
\* (incReviewerRuns and clearReviewRequested are each followed at once by an
\* awaited persistReviewerState() of the same payload, which stands for both
\* writes.)
VoidPersist(payload) == writers' = <<payload>>

\* src: persistReviewerState of a `void` call, after its writeFile
WriterLands ==
    /\ writers # <<>>
    /\ reviewerDisk' = Head(writers)
    /\ writers' = Tail(writers)
    /\ UNCHANGED <<cfg, planExists, supVars, activeReviewer, reviewRequested, reviewerRuns,
                   sessionMap, nextId, handlers, histVars, gateLog, activeCommands, commands,
                   agentDocs, agentDone, awaitLog, qaVars, reviewStarts, reviewReply,
                   reviewerDone, lastToast, idleDropped, rawConfig, limits>>

\* src: tool_ralph_request_review (the notification it awaits changes nothing)
RequestReviewCall(sid) ==
    /\ Delivered
    /\ LET map == getSessionMap(sid)
           att == ReviewAttempt(map, sid)
       IN  /\ sessionMap' = map
           /\ reviewRequested' = reviewRequested \cup {att}
           /\ VoidPersist([ReviewerPayload EXCEPT !.reviewRequested = reviewRequested \cup {att}])
    /\ UNCHANGED <<cfg, planExists, supVars, activeReviewer, reviewerRuns, reviewerDisk,
                   nextId, handlers, histOnly, gateLog, activeCommands, commands,
                   agentDocs, agentDone, awaitLog, qaVars, reviewStarts, reviewReply,
                   reviewerDone, lastToast, idleDropped, rawConfig, limits>>

ReviewArgs == SUBSET {"force", "wait"}

\* src: tool_ralph_run_reviewer, up to `await run(getConfig())`
RunReviewerCall(sid, arg) ==
    /\ Delivered
    /\ FreeSlots # {}
    /\ arg \in ReviewArgs
    /\ Suspend("review_cfg", sid, 0, arg)
    /\ UNCHANGED <<cfg, planExists, supVars, revVars, sessionMap, nextId, histOnly, gateLog, envVars>>

\* the tool returns its JSON reply
Reply(h, reason) ==
    /\ reviewReply' = reason
    /\ Finish(h)

RunReviewerCheckedUngated(h) ==
    /\ At(h, "review_cfg")
    /\ LET force == "force" \in handlers[h].arg
           map == getSessionMap(handlers[h].sid)
           att == ReviewAttempt(map, handlers[h].sid)
       IN  IF ~cfg.reviewerEnabled /\ ~force
             THEN /\ Reply(h, "reviewer disabled")
                  /\ UNCHANGED sessionMap
             ELSE /\ sessionMap' = map
                  /\ IF ~force /\ reviewerRuns[att] >= cfg.reviewerMaxRunsPerAttempt
                       THEN Reply(h, "review run limit reached")
                     ELSE IF activeReviewer.name # "none"
                       THEN IF "wait" \in handlers[h].arg /\ activeReviewer.attempt > 0
                              THEN /\ handlers' = [handlers EXCEPT
                                                      ![h].pc = "review_wait",
                                                      ![h].att = activeReviewer.attempt,
                                                      ![h].child = activeReviewer.sessionId]
                                   /\ UNCHANGED reviewReply
                              ELSE Reply(h, "already running")
                     ELSE /\ GotoAtt(h, "review_create", att)
                          /\ UNCHANGED reviewReply
    /\ UNCHANGED <<cfg, planExists, supVars, revVars, nextId, histVars, gateLog, activeCommands,
                   commands, agentDocs, agentDone, awaitLog, qaVars, writers, reviewStarts,
                   reviewerDone, lastToast, idleDropped, rawConfig, limits>>

\* src: tool_ralph_run_reviewer, from the reviewerEnabled test to
\* `await run(bootstrapSubAgent(...))`
RunReviewerChecked(h) ==
    /\ At(h, "review_cfg")
    /\ LET force == "force" \in handlers[h].arg
           map == getSessionMap(handlers[h].sid)
           att == ReviewAttempt(map, handlers[h].sid)
       IN  IF ~cfg.reviewerEnabled /\ ~force
             THEN /\ Reply(h, "reviewer disabled")
                  /\ UNCHANGED sessionMap
             ELSE /\ sessionMap' = map
                  /\ IF ~force /\ cfg.reviewerRequireExplicitReady /\ att \notin reviewRequested
                       THEN Reply(h, "review not requested")
                     ELSE IF ~force /\ reviewerRuns[att] >= cfg.reviewerMaxRunsPerAttempt
                       THEN Reply(h, "review run limit reached")
                     ELSE IF activeReviewer.name # "none"
                       THEN IF "wait" \in handlers[h].arg /\ activeReviewer.attempt > 0
                              THEN /\ handlers' = [handlers EXCEPT
                                                      ![h].pc = "review_wait",
                                                      ![h].att = activeReviewer.attempt,
                                                      ![h].child = activeReviewer.sessionId]
                                   /\ UNCHANGED reviewReply
                              ELSE Reply(h, "already running")
                     ELSE /\ GotoAtt(h, "review_create", att)
                          /\ UNCHANGED reviewReply
    /\ UNCHANGED <<cfg, planExists, supVars, revVars, nextId, histVars, gateLog, activeCommands,
                   commands, agentDocs, agentDone, awaitLog, qaVars, writers, reviewStarts,
                   reviewerDone, lastToast, idleDropped, rawConfig, limits>>

\* src: tool_ralph_run_reviewer, after bootstrapSubAgent (a fresh name, so
\* fresh documents) and `await client.session.create`
ReviewerCreated(h) ==
    /\ At(h, "review_create")
    /\ nextId <= MaxId
    /\ sessionMap' = [sessionMap EXCEPT ![nextId] = freshSession("subagent", handlers[h].att)]
    /\ created' = [created EXCEPT ![nextId] = <<"subagent", handlers[h].att>>]
    /\ nextId' = nextId + 1
    /\ handlers' = [handlers EXCEPT ![h].pc = "review_prompt", ![h].child = nextId]
    /\ reviewStarts' = Append(reviewStarts, [attempt |-> handlers[h].att,
                                             force |-> "force" \in handlers[h].arg,
                                             sessionId |-> nextId])
    /\ UNCHANGED <<cfg, planExists, supVars, revVars, calls, loadCalled, verdicts, rollovers,
                   gateLog, activeCommands, commands, agentDocs, agentDone, awaitLog, qaVars,
                   writers, reviewReply, reviewerDone, lastToast, idleDropped, rawConfig, limits>>

\* src: tool_ralph_run_reviewer, after `await client.session.prompt`: the
\* active-reviewer fields, incReviewerRuns, up to `await persistReviewerState()`
ReviewerPrompted(h) ==
    /\ At(h, "review_prompt")
    /\ LET active == [name |-> "reviewer", attempt |-> handlers[h].att,
                      sessionId |-> handlers[h].child]
           runs == [reviewerRuns EXCEPT ![handlers[h].att] = @ + 1]
           payload == [reviewRequested |-> reviewRequested, reviewerRuns |-> runs,
                       active |-> active]
       IN  /\ activeReviewer' = active
           /\ reviewerRuns' = runs
           /\ handlers' = [handlers EXCEPT ![h].pc = "review_persist", ![h].snap = payload]
    /\ UNCHANGED <<cfg, planExists, supVars, reviewRequested, reviewerDisk, sessionMap, nextId,
                   histVars, gateLog, activeCommands, commands, agentDocs, agentDone, awaitLog,
                   qaVars, reviewHist, lastToast, idleDropped, rawConfig, limits>>

\* src: tool_ralph_run_reviewer, after `await persistReviewerState()`: with
\* wait=false the tool returns, otherwise it goes on to waitForReviewerCompletion
ReviewerPersisted(h) ==
    /\ At(h, "review_persist")
    /\ reviewerDisk' = handlers[h].snap
    /\ IF "wait" \in handlers[h].arg
         THEN /\ handlers' = [handlers EXCEPT ![h].pc = "review_wait", ![h].snap = NoSnap]
              /\ UNCHANGED reviewReply
         ELSE Reply(h, "started")
    /\ UNCHANGED <<cfg, planExists, supVars, activeReviewer, reviewRequested, reviewerRuns,
                   sessionMap, nextId, histVars, gateLog, activeCommands, commands, agentDocs,
                   agentDone, awaitLog, qaVars, writers, reviewStarts, reviewerDone, lastToast, idleDropped,
                   rawConfig, limits>>

\* src: waitForReviewerCompletion, one iteration: the document is read after
\* the sleep; the loop ends with the done marker found or with its last
\* iteration
ReviewerWaitPoll(h, last) ==
    /\ At(h, "review_wait")
    /\ IF handlers[h].child \in reviewerDone
         THEN /\ Goto(h, "review_report")
              /\ UNCHANGED reviewReply
         ELSE /\ last
              /\ Reply(h, "still running")
    /\ UNCHANGED <<cfg, planExists, supVars, revVars, sessionMap, nextId, histVars, gateLog,
                   activeCommands, commands, agentDocs, agentDone, awaitLog, qaVars, writers,
                   reviewStarts, reviewerDone, lastToast, idleDropped, rawConfig, limits>>

\* src: waitForReviewerCompletion, after the report file is written: the
\* active-reviewer fields are unset, clearReviewRequested, up to
\* `await persistReviewerState()`
ReviewerReported(h) ==
    /\ At(h, "review_report")
    /\ LET payload == [reviewRequested |-> reviewRequested \ {handlers[h].att},
                       reviewerRuns |-> reviewerRuns, active |-> NoReview]
       IN  /\ activeReviewer' = NoReview
           /\ reviewRequested' = reviewRequested \ {handlers[h].att}
           /\ handlers' = [handlers EXCEPT ![h].pc = "review_done", ![h].snap = payload]
    /\ UNCHANGED <<cfg, planExists, supVars, reviewerRuns, reviewerDisk, sessionMap, nextId,
                   histVars, gateLog, activeCommands, commands, agentDocs, agentDone, awaitLog,
                   qaVars, reviewHist, lastToast, idleDropped, rawConfig, limits>>

\* src: waitForReviewerCompletion, after `await persistReviewerState()`
ReviewerCompleted(h) ==
    /\ At(h, "review_done")
    /\ reviewerDisk' = handlers[h].snap
    /\ Reply(h, "done")
    /\ UNCHANGED <<cfg, planExists, supVars, activeReviewer, reviewRequested, reviewerRuns,
                   sessionMap, nextId, histVars, gateLog, activeCommands, commands, agentDocs,
                   agentDone, awaitLog, qaVars, writers, reviewStarts, reviewerDone, lastToast, idleDropped,
                   rawConfig, limits>>

\* the reviewer session writes the done heading or sentinel into its
\* CURRENT_STATE.md; only a caller waiting for it reads that document
ReviewerWritesDone(id) ==
    /\ Registered(id)
    /\ \E h \in Slots : At(h, "review_wait") /\ handlers[h].child = id
    /\ id \notin reviewerDone
    /\ reviewerDone' = reviewerDone \cup {id}
    /\ UNCHANGED <<cfg, planExists, supVars, revVars, sessionMap, nextId, handlers, histVars,
                   gateLog, activeCommands, commands, agentDocs, agentDone, awaitLog, qaVars,
                   writers, reviewStarts, reviewReply, lastToast, idleDropped, rawConfig, limits>>

\* src: the plugin is loaded again: a fresh supervisor record and session map,
\* then `await loadReviewerState()`
PluginRestart ==
    /\ Delivered
    /\ AllFree
    /\ writers = <<>>
    /\ activeCommands = {}
    /\ sessionId' = None
    /\ attempt' = 0
    /\ currentRalphSessionId' = None
    /\ currentWorkerSessionId' = None
    /\ done' = FALSE
    /\ paused' = FALSE
    /\ lastMainIdleRecent' = FALSE
    /\ sessionMap' = [id \in SessionIds |-> NoSession]
    /\ reviewRequested' = reviewerDisk.reviewRequested
    /\ reviewerRuns' = reviewerDisk.reviewerRuns
    /\ activeReviewer' = reviewerDisk.active
    /\ UNCHANGED <<cfg, planExists, reviewerDisk, nextId, handlers, histOnly, gateLog, envVars>>

\* ------------------------------------------------------------ specifications
KnownIds == MainIds \cup {id \in ChildIds : id < nextId}
RunIds == {Main1} \cup {id \in ChildIds : id < nextId}
Verdicts == {"pass", "fail", "unknown"}

\* continuations of the session spawns
SpawnSteps ==
    \E h \in Slots : SpawnRalphCreated(h) \/ SpawnWorkerCreated(h)

\* continuations of the session.idle handlers
IdleSteps ==
    \E h \in Slots :
        \/ IdleRouteWorker(h)
        \/ WorkerIdleClear(h)
        \/ (\E v \in Verdicts : WorkerIdleVerdict(h, v))
        \/ WorkerIdleIncrement(h)
        \/ WorkerIdleRespawn(h)
        \/ IdleRouteRalph(h)
        \/ IdleRouteMain(h)
        \/ MainIdleBind(h)
        \/ MainIdleStart(h)

\* continuations of ralph_create_supervisor_session without restart_if_done
CreateSteps ==
    \E h \in Slots : CreateSupervisorBind(h) \/ CreateSupervisorStart(h)

\* continuations of the other supervision control tools
ControlSteps ==
    \E h \in Slots :
        \/ CreateSupervisorRestarted(h)
        \/ EndSupervisionAborted(h)
        \/ EndSupervisionPersisted(h)
        \/ ResumeSupervisionStart(h)
        \/ ResetStateClear(h)
        \/ ResetStatePersisted(h)
        \/ QuickstartPlan(h)
        \/ QuickstartStart(h)

\* calls of the supervision control tools by the main sessions
ControlCalls ==
    \/ \E sid \in MainIds, arg \in CreateArgs : CreateSupervisorCall(sid, arg)
    \/ \E sid \in MainIds, arg \in SUBSET {"clear_binding"} : EndSupervisionCall(sid, arg)
    \/ PauseSupervision
    \/ \E sid \in MainIds, arg \in SUBSET {"start_loop"} : ResumeSupervisionCall(sid, arg)
    \/ \E sid \in MainIds, arg \in SUBSET {"confirm", "full"} : ResetStateCall(sid, arg)
    \/ \E sid \in MainIds, arg \in SUBSET {"start_loop", "overwrite_plan"} : QuickstartCall(sid, arg)

\* failures and ends of sessions reported by the session host
HostSteps ==
    \/ \E h \in Slots : SpawnCreateFailed(h)
    \/ \E sid \in KnownIds : SessionEnded(sid)

\* The attempt loop: manual starts by the first main session, idle events and
\* spawn-worker calls of that session and of every session spawned so far, in
\* every interleaving of the handlers.
LoopConfigs == {c \in Configs : c.enabled /\ c.verify /\ c.gate /\ c.subAgentEnabled}
Init == InitWith(LoopConfigs, {TRUE}, 0)
Next ==
    \/ \E sid \in RunIds : EventIdle(sid)
    \/ \E sid \in RunIds : SpawnWorkerCall(sid)
    \/ CreateSupervisorCall(Main1, {"start_loop"})
    \/ DebounceElapsed
    \/ IdleSteps
    \/ CreateSteps
    \/ SpawnSteps
Spec == Init /\ [][Next]_vars

\* The automatic attempt loop (autoStartOnMainIdle on) in every interleaving
\* of the handlers: idle events of the first main session and of every
\* session spawned so far, and spawn-worker calls made by the strategist that
\* is currently active.
InitVerify == InitWith({c \in LoopConfigs : c.autoStartOnMainIdle}, {TRUE}, 0)
NextVerify ==
    \/ \E sid \in RunIds : EventIdle(sid)
    \/ currentRalphSessionId # None /\ SpawnWorkerCall(currentRalphSessionId)
    \/ DebounceElapsed
    \/ IdleSteps
    \/ SpawnSteps
SpecVerify == InitVerify /\ [][NextVerify]_vars

\* One run of the attempt loop with one handler at a time and sessions that
\* follow the protocol: an event or a tool call is delivered only when no
\* handler is suspended at an await; the manual start is called only while no
\* run has started (attempt = 0); a strategist calls spawn-worker only while it
\* is the active strategist and goes idle only after it has delegated.  Any
\* number of events and calls is delivered.
InitSeq == InitWith(LoopConfigs, {TRUE}, Uncounted)
StrategistCall ==
    AllFree /\ currentRalphSessionId # None /\ SpawnWorkerCall(currentRalphSessionId)
StrategistIdle ==
    /\ AllFree
    /\ currentRalphSessionId # None
    /\ sessionMap[currentRalphSessionId].workerSpawned
    /\ EventIdle(currentRalphSessionId)
WorkerIdle ==
    AllFree /\ currentWorkerSessionId # None /\ EventIdle(currentWorkerSessionId)
OtherIdle ==
    /\ AllFree
    /\ \E sid \in KnownIds \ {currentRalphSessionId, currentWorkerSessionId} : EventIdle(sid)
ManualStart ==
    AllFree /\ attempt = 0 /\ CreateSupervisorCall(Main1, {"start_loop"})
HandlerSteps == IdleSteps \/ CreateSteps \/ SpawnSteps
NextSeq ==
    \/ StrategistCall
    \/ StrategistIdle
    \/ WorkerIdle
    \/ OtherIdle
    \/ ManualStart
    \/ DebounceElapsed
    \/ HandlerSteps
SpecSeq == InitSeq /\ [][NextSeq]_vars

\* The same run when the host delivers the session.idle of the active worker in
\* bursts: a further idle event of the worker arrives while handlers are
\* suspended at an await.
WorkerIdleBurst ==
    ~AllFree /\ currentWorkerSessionId # None /\ EventIdle(currentWorkerSessionId)
NextBurst ==
    \/ WorkerIdleBurst
    \/ NextSeq
SpecBurst == InitSeq /\ [][NextBurst]_vars

\* The same run under the scheduling the host guarantees: a resumed handler
\* runs to its next await, the active strategist eventually calls spawn-worker
\* and goes idle, the active worker eventually goes idle.
SpecLive ==
    /\ SpecSeq
    /\ WF_vars(HandlerSteps)
    /\ SF_vars(StrategistCall)
    /\ SF_vars(StrategistIdle)
    /\ SF_vars(WorkerIdle)

\* The protocol gate: sessions of every role are registered one at a time
\* (manual start, spawn-worker, sub-task spawn), load their context, call
\* tools, and end.
GateConfigs == {c \in Configs : c.enabled /\ c.verify /\ c.autoStartOnMainIdle /\ c.gate
                                 /\ c.maxAttempts = MaxAttemptsCfg /\ c.subAgentEnabled}
InitGate == InitWith(GateConfigs, {TRUE}, 0)
\* the hook tells tools apart by their set only: two destructive tools, two
\* safe ones and one in neither set are called
GateTools == {"write", "bash", "ralph_load_context", "rlm_grep", "read"}
NextGate ==
    \/ \E sid \in RunIds, t \in GateTools : ToolExecuteBefore(sid, t)
    \/ \E sid \in RunIds : LoadContext(sid)
    \/ AllFree /\ \E sid \in RunIds : SubagentSpawnCall(sid, <<"a">>)
    \/ \E h \in Slots : \/ SubagentSpawnChecked(h)
                         \/ SubagentBootstrapped(h)
                         \/ SubagentSpawnCreated(h)
                         \/ SubagentSpawnPrompted(h)
    \/ AllFree /\ \E sid \in RunIds : SpawnWorkerCall(sid)
    \/ AllFree /\ CreateSupervisorCall(Main1, {"start_loop"})
    \/ CreateSteps
    \/ SpawnSteps
    \/ \E sid \in RunIds : SessionEnded(sid)
SpecGate == InitGate /\ [][NextGate]_vars

\* The same run with the pause tool: once the first strategist of the run is
\* spawned ralph_pause_supervision may be called at any moment, also while a
\* handler is suspended at an await.
PauseDuringRun == nextId > FirstChildId /\ PauseSupervision
NextPause ==
    \/ PauseDuringRun
    \/ NextSeq
SpecPause == InitSeq /\ [][NextPause]_vars

\* The same run with the end tool: once the first strategist of the run is
\* spawned ralph_end_supervision may be called at any moment, also while a
\* handler is suspended at an await.
EndDuringRun ==
    /\ nextId > FirstChildId
    /\ \E arg \in SUBSET {"clear_binding"} : EndSupervisionCall(Main1, arg)
EndSteps == \E h \in Slots : EndSupervisionAborted(h) \/ EndSupervisionPersisted(h)
NextEnd ==
    \/ EndDuringRun
    \/ EndSteps
    \/ NextSeq
SpecEnd == InitSeq /\ [][NextEnd]_vars

\* The same run with the reset tool: once the first strategist of the run is
\* spawned ralph_reset_state may be called with the confirmation token whenever
\* no other handler is in flight.
ResetDuringRun ==
    /\ AllFree
    /\ nextId > FirstChildId
    /\ \E arg \in {{"confirm"}, {"confirm", "full"}} : ResetStateCall(Main1, arg)
ResetSteps == \E h \in Slots : ResetStateClear(h) \/ ResetStatePersisted(h)
NextReset ==
    \/ ResetDuringRun
    \/ ResetSteps
    \/ NextSeq
SpecReset == InitSeq /\ [][NextReset]_vars

\* The same run with two main sessions using the supervision control tools:
\* create (with every argument combination), end, resume and the quickstart
\* wizard are called by either main session whenever no handler is in flight.
BindCalls ==
    /\ AllFree
    /\ \E sid \in MainIds :
        \/ \E arg \in CreateArgs : CreateSupervisorCall(sid, arg)
        \/ \E arg \in SUBSET {"clear_binding"} : EndSupervisionCall(sid, arg)
        \/ \E arg \in SUBSET {"start_loop"} : ResumeSupervisionCall(sid, arg)
        \/ \E arg \in SUBSET {"start_loop", "overwrite_plan"} : QuickstartCall(sid, arg)
BindSteps ==
    \E h \in Slots :
        \/ CreateSupervisorRestarted(h)
        \/ EndSupervisionAborted(h)
        \/ EndSupervisionPersisted(h)
        \/ ResumeSupervisionStart(h)
        \/ QuickstartPlan(h)
        \/ QuickstartStart(h)
NextBind ==
    \/ BindCalls
    \/ BindSteps
    \/ StrategistCall
    \/ StrategistIdle
    \/ WorkerIdle
    \/ OtherIdle
    \/ DebounceElapsed
    \/ HandlerSteps
SpecBind == InitSeq /\ [][NextBind]_vars

\* The verification command: ralph_verify is called by any session at any
\* moment, each invocation's child closes, fails to spawn or is stopped by its
\* timeout, and ralph_end_supervision stops all commands in flight.  No session
\* is tracked in these runs, so the end tool never waits for an abort.
CmdConfigs == {c \in Configs : c.enabled /\ c.gate /\ c.subAgentEnabled
                                /\ ~c.autoStartOnMainIdle /\ c.maxAttempts = 1}
InitCmd == InitWith(CmdConfigs, {TRUE}, Uncounted)
NextCmd ==
    \/ \E c \in CmdIds, outcome \in SpawnOutcomes, timeout \in BOOLEAN :
          RunVerify(c, outcome, timeout)
    \/ \E c \in CmdIds : CommandTimeout(c)
    \/ \E c \in CmdIds : CommandKillTimer(c)
    \/ \E c \in CmdIds : CommandError(c)
    \/ \E c \in CmdIds, code \in ExitCodes : CommandClose(c, code)
    \/ AllFree /\ EndSupervisionCall(Main1, {})
    \/ \E h \in Slots : EndSupervisionPersisted(h)
SpecCmd == InitCmd /\ [][NextCmd]_vars

\* Sub-task spawns: the main session and every sub-agent spawned so far call
\* subagent_spawn with valid and invalid names, one call at a time, with
\* sub-agents enabled or disabled.
SpawnNames == {<<"a">>, <<"Z", "-", "7", "_">>, <<".", ".", "/", "a">>, <<>>}
SubConfigs == {c \in Configs : c.enabled /\ c.gate /\ c.verify /\ ~c.autoStartOnMainIdle
                                /\ c.maxAttempts = 1}
InitSub == InitWith(SubConfigs, {TRUE}, Uncounted)
NextSub ==
    \/ AllFree /\ \E sid \in RunIds, name \in SpawnNames : SubagentSpawnCall(sid, name)
    \/ \E h \in Slots : \/ SubagentSpawnChecked(h)
                        \/ SubagentBootstrapped(h)
                        \/ SubagentSpawnCreated(h)
                        \/ SubagentSpawnPrompted(h)
SpecSub == InitSub /\ [][NextSub]_vars

\* Sub-tasks of one session: the main session calls subagent_spawn and
\* subagent_await with valid names at any moment, also while earlier calls are
\* suspended at an await, and the spawned sub-agents finish their documents.
\* MaxCalls calls are delivered.
TaskNames == {<<"a">>, <<"Z">>, <<"7">>}
TaskConfigs == {c \in SubConfigs : c.subAgentEnabled}
InitTasks == InitWith(TaskConfigs, {TRUE}, 0)
NextTasks ==
    \/ \E name \in TaskNames : SubagentSpawnCall(Main1, name)
    \/ \E name \in TaskNames : SubagentAwait(Main1, name)
    \/ \E name \in TaskNames : SubagentWritesDone(name)
    \/ \E h \in Slots : \/ SubagentSpawnChecked(h)
                        \/ SubagentBootstrapped(h)
                        \/ SubagentSpawnCreated(h)
                        \/ SubagentSpawnPrompted(h)
SpecTasks == InitTasks /\ [][NextTasks]_vars

\* The same sub-tasks when the main session makes one call at a time: it spawns
\* a sub-agent, polls it with subagent_await, and spawns again, reusing names.
NextAwait ==
    \/ AllFree /\ \E name \in TaskNames : SubagentSpawnCall(Main1, name)
    \/ AllFree /\ \E name \in TaskNames : SubagentAwait(Main1, name)
    \/ \E name \in TaskNames : SubagentWritesDone(name)
    \/ \E h \in Slots : \/ SubagentSpawnChecked(h)
                        \/ SubagentBootstrapped(h)
                        \/ SubagentSpawnCreated(h)
                        \/ SubagentSpawnPrompted(h)
SpecAwait == InitTasks /\ [][NextAwait]_vars

\* Questions and answers: a session calls ralph_ask and the supervisor calls
\* ralph_respond, at any moment and in every interleaving of the reads
\* and writes of pending_input.json; the calls of ralph_ask are made at
\* successive milliseconds.
InitQa == InitWith(TaskConfigs, {TRUE}, Uncounted)
NextQa ==
    \/ AskCall(Main2, LastAskTime + 1)
    \/ \E q \in QIds : AskRead(q) \/ AskWrite(q) \/ AskPoll(q)
    \/ \E id \in QIds, answer \in Answers : RespondCall(id, answer)
    \/ \E r \in RespondIds : RespondRead(r) \/ RespondWrite(r)
SpecQa == InitQa /\ [][NextQa]_vars

\* The same questions and answers when every call has finished its read and
\* write of pending_input.json before the next call is made; the polling of the
\* asks goes on in between.
QaQuiet ==
    /\ \A q \in QIds : asks[q].st \notin {"read", "write"}
    /\ \A r \in RespondIds : responds[r].st \notin {"read", "write"}
NextQaSeq ==
    \/ QaQuiet /\ AskCall(Main2, LastAskTime + 1)
    \/ \E q \in QIds : AskRead(q) \/ AskWrite(q) \/ AskPoll(q)
    \/ QaQuiet /\ \E id \in QIds, answer \in Answers : RespondCall(id, answer)
    \/ \E r \in RespondIds : RespondRead(r) \/ RespondWrite(r)
SpecQaSeq == InitQa /\ [][NextQaSeq]_vars

\* The slice limits: ralph.json is edited to any of the raw inputs and read
\* again, any number of times.
InitConfig == InitWith({c \in LoopConfigs : ~c.autoStartOnMainIdle /\ c.maxAttempts = 1},
                       {TRUE}, Uncounted)
NextConfig ==
    \/ \E raw \in RawConfigs : ConfigEdited(raw)
    \/ ConfigLoaded
SpecConfig == InitConfig /\ [][NextConfig]_vars

\* The reviewer tools: the main session marks its attempt ready and runs the
\* reviewer, with every combination of force and wait, at any moment, also
\* while earlier calls are at an await; the reviewer sessions finish their
\* report at any moment.
ReviewConfigs ==
    {c \in AllConfigs : /\ c.enabled /\ c.gate /\ c.verify /\ c.subAgentEnabled
                        /\ ~c.autoStartOnMainIdle /\ c.maxAttempts = 1
                        /\ c.reviewerEnabled}
InitReview == InitWith(ReviewConfigs, {TRUE}, 0)
ReviewSteps ==
    \/ \E h \in Slots : \/ RunReviewerChecked(h)
                        \/ ReviewerCreated(h)
                        \/ ReviewerPrompted(h)
                        \/ ReviewerPersisted(h)
                        \/ \E last \in BOOLEAN : ReviewerWaitPoll(h, last)
                        \/ ReviewerReported(h)
                        \/ ReviewerCompleted(h)
    \/ WriterLands
    \/ \E id \in ChildIds : ReviewerWritesDone(id)
NextRuns ==
    \/ calls < MaxReviewCalls /\ RequestReviewCall(Main1)
    \/ calls < MaxReviewCalls /\ \E arg \in ReviewArgs : RunReviewerCall(Main1, arg)
    \/ ReviewSteps
SpecRuns == InitReview /\ [][NextRuns]_vars

\* The reviewer tools called one after the other: a call is made when no
\* other handler is at an await.
NextReady ==
    \/ AllFree /\ calls < MaxReviewCalls /\ RequestReviewCall(Main1)
    \/ AllFree /\ calls < MaxReviewCalls /\ \E arg \in ReviewArgs : RunReviewerCall(Main1, arg)
    \/ ReviewSteps
SpecReady == InitReview /\ [][NextReady]_vars

\* The reviewer tools together with everything else that changes the
\* review-gating fields: ralph_reset_state, ralph_end_supervision, the end of a
\* tracked session and a restart of the plugin.  A tool is called when no
\* other handler is at an await.
NextReview ==
    \/ AllFree /\ RequestReviewCall(Main1)
    \/ AllFree /\ \E arg \in ReviewArgs : RunReviewerCall(Main1, arg)
    \/ ReviewSteps
    \/ AllFree /\ ResetStateCall(Main1, {"confirm"})
    \/ ResetSteps
    \/ AllFree /\ EndSupervisionCall(Main1, {})
    \/ EndSteps
    \/ AllFree /\ \E id \in ChildIds : SessionEnded(id)
    \/ \E h \in Slots : SessionEndedPersisted(h)
    \/ PluginRestart
SpecReview == InitReview /\ [][NextReview]_vars

\* One run of the attempt loop in which the strategist may go idle before it
\* has called ralph_spawn_worker.  The loop is started once, by the create
\* tool; every later event is a session.idle or a tool call of a spawned session.
AnyStrategistIdle ==
    /\ AllFree
    /\ currentRalphSessionId # None
    /\ EventIdle(currentRalphSessionId)
NextStall ==
    \/ StrategistCall
    \/ AnyStrategistIdle
    \/ WorkerIdle
    \/ OtherIdle
    \/ ManualStart
    \/ DebounceElapsed
    \/ HandlerSteps
InitStall == InitWith(LoopConfigs, {TRUE}, 0)
SpecStall == InitStall /\ [][NextStall]_vars

\* Question ids: two sessions call ralph_ask, each call in the millisecond of
\* the call before it or in the next one, and the supervisor responds, in
\* every interleaving of the reads and writes of pending_input.json.
NextAskIds ==
    \/ \E sid \in MainIds, now \in {LastAskTime, LastAskTime + 1} : AskCall(sid, now)
    \/ \E q \in QIds : AskRead(q) \/ AskWrite(q) \/ AskPoll(q)
    \/ \E id \in QIds, answer \in Answers : RespondCall(id, answer)
    \/ \E r \in RespondIds : RespondRead(r) \/ RespondWrite(r)
SpecAskIds == InitQa /\ [][NextAskIds]_vars

\* Stopping the blocking waits: a session asks a question, the supervisor
\* runs the reviewer and waits for it, and ralph_end_supervision is called
\* once, at any moment, in every interleaving of the handlers; no ralph_ask
\* and no ralph_run_reviewer is called after it.
NextStop ==
    \/ ~done /\ calls < MaxReviewCalls /\ AskCall(Main2, LastAskTime + 1)
    \/ \E q \in QIds : AskRead(q) \/ AskWrite(q) \/ AskPoll(q)
    \/ /\ ~done
       /\ calls < MaxReviewCalls
       /\ \E arg \in {{"wait"}, {"wait", "force"}} : RunReviewerCall(Main1, arg)
    \/ \E h \in Slots : \/ RunReviewerChecked(h)
                        \/ ReviewerCreated(h)
                        \/ ReviewerPrompted(h)
                        \/ ReviewerPersisted(h)
                        \/ \E last \in BOOLEAN : ReviewerWaitPoll(h, last)
                        \/ ReviewerReported(h)
                        \/ ReviewerCompleted(h)
    \/ \E id \in ChildIds : ReviewerWritesDone(id)
    \/ ~done /\ EndSupervisionCall(Main1, {})
    \/ EndSteps
SpecStop == InitReview /\ [][NextStop]_vars

\* The sequential attempt loop with a session host whose session.create can
\* be rejected.
NextFail ==
    \/ NextSeq
    \/ \E h \in Slots : SpawnCreateFailed(h)
SpecFail == InitSeq /\ [][NextFail]_vars

\* The sequential attempt loop in which, in addition, the bound main session
\* goes idle while a verification is in flight: the worker-idle handler has
\* cleared the active-worker field and waits for runAndParseVerify.
VerifyInFlight ==
    /\ \E g \in Slots : At(g, "worker_verify")
    /\ currentWorkerSessionId = None
    /\ currentRalphSessionId = None
MainIdleDuringVerify ==
    /\ VerifyInFlight
    /\ sessionId # None
    /\ EventIdle(sessionId)
NextWindow ==
    \/ NextSeq
    \/ MainIdleDuringVerify
SpecWindow == InitSeq /\ [][NextWindow]_vars

\* The sequential attempt loop with pause and resume, in which a worker stops
\* once: its session.idle event is either handled or, when it arrives while
\* supervision is paused, ignored, and the stopped worker emits no further
\* event.  autoStartOnMainIdle is on; the scheduling is that of SpecLive.
InitLost == InitWith({c \in LoopConfigs : c.autoStartOnMainIdle}, {TRUE}, Uncounted)
WorkerStops ==
    /\ currentWorkerSessionId \notin idleDropped
    /\ WorkerIdle
WorkerStopsPaused ==
    /\ AllFree
    /\ paused
    /\ ~done
    /\ currentWorkerSessionId # None
    /\ EventIdleIgnored(currentWorkerSessionId)
ResumeAfterPause ==
    /\ AllFree
    /\ paused
    /\ \E arg \in SUBSET {"start_loop"} : ResumeSupervisionCall(Main1, arg)
NextLost ==
    \/ StrategistCall
    \/ StrategistIdle
    \/ WorkerStops
    \/ WorkerStopsPaused
    \/ OtherIdle
    \/ ManualStart
    \/ DebounceElapsed
    \/ HandlerSteps
    \/ PauseDuringRun
    \/ ResumeAfterPause
    \/ \E h \in Slots : ResumeSupervisionStart(h)
SpecLost ==
    /\ InitLost
    /\ [][NextLost]_vars
    /\ WF_vars(HandlerSteps)
    /\ WF_vars(\E h \in Slots : ResumeSupervisionStart(h))
    /\ SF_vars(StrategistCall)
    /\ SF_vars(StrategistIdle)
    /\ SF_vars(WorkerStops)

\* ------------------------------------------------------------------ claims
CreatedWith(role) == {id \in ChildIds : created[id][1] = role}

C6_GateExemptions ==
    /\ gateLog.role \notin GatedRoles => gateLog.allowed
    /\ gateLog.tool \notin DESTRUCTIVE_TOOLS => gateLog.allowed

C6_Witness ==
    /\ gateLog.role = "ralph"
    /\ gateLog.tool = "bash"
    /\ ~gateLog.called
    /\ gateLog.allowed

NoPass == \A i \in 1..Len(verdicts) : verdicts[i] # "pass"
SpawnedIn(role) == {id \in ChildIds : created'[id] # created[id] /\ created'[id][1] = role}

\* C2: a strategist session is registered only in a state where no strategist
\* is active, and a worker session only in a state where no worker is active,
\* whichever handlers interleave.
C2_SpawnGuard ==
    [][/\ SpawnedIn("ralph") # {} => currentRalphSessionId = None
       /\ SpawnedIn("worker") # {} => currentWorkerSessionId = None]_vars

\* C3: a spawn-worker call is accepted (the caller's workerSpawned flag is set
\* and a worker session is requested) only when the caller is the currently
\* active strategist.
C3_SpawnWorkerCaller ==
    [][\A s \in SessionIds :
          (sessionMap'[s].workerSpawned /\ ~sessionMap[s].workerSpawned)
              => s = currentRalphSessionId]_vars

\* C4: for every attempt number at most one worker session is ever spawned.
C4_OneWorkerPerAttempt ==
    \A n \in AttemptRange :
        Cardinality({id \in ChildIds : created[id] = <<"worker", n>>}) <= 1

\* C7: when verification has run and never passed, at most maxAttempts
\* strategists and at most maxAttempts workers have been spawned, and the
\* loop is not terminal.
C7_Exhaustion ==
    (verdicts # <<>> /\ NoPass)
        => /\ Cardinality(CreatedWith("ralph")) <= cfg.maxAttempts
           /\ Cardinality(CreatedWith("worker")) <= cfg.maxAttempts
           /\ ~done

\* C8: the loop is terminal exactly when a verification has passed, and when
\* the first k-1 verifications did not pass and the k-th passed (k at most
\* maxAttempts) exactly k-1 rollovers have happened once every handler is done.
C8_PassOnKth ==
    /\ done <=> ~NoPass
    /\ \A k \in 1..cfg.maxAttempts :
          (/\ AllFree
           /\ Len(verdicts) = k
           /\ verdicts[k] = "pass"
           /\ \A i \in 1..(k - 1) : verdicts[i] # "pass")
              => rollovers = k - 1

C8_Witness ==
    /\ verdicts = <<"fail", "pass">>
    /\ done
    /\ rollovers = 1
    /\ AllFree
    /\ Cardinality(CreatedWith("worker")) = 2

\* C9: while the loop is terminal no step registers a strategist or a worker
\* session, handlers that were in flight when it became terminal included.
C9_TerminalNoSpawn ==
    [][(done /\ done') => (SpawnedIn("ralph") = {} /\ SpawnedIn("worker") = {})]_vars

\* C10: once a run has started the attempt counter changes only by +1 in the
\* worker-idle handling that follows a verdict other than pass; the only other
\* step that may set it is the explicit start of ralph_create_supervisor_session.
C10_AttemptMonotone ==
    [][(attempt >= 1 /\ attempt' # attempt)
          => \/ /\ attempt' = attempt + 1
                /\ \E h \in Slots : /\ At(h, "worker_next")
                                    /\ handlers[h].verdict \in {"fail", "unknown"}
                                    /\ handlers'[h].pc = "worker_rollover"
             \/ \E h \in Slots : At(h, "create_setup") /\ handlers'[h].pc = "ralph_create"]_vars

Exhausted ==
    /\ attempt >= cfg.maxAttempts
    /\ currentRalphSessionId = None
    /\ currentWorkerSessionId = None
    /\ AllFree
    /\ verdicts # <<>>
    /\ verdicts[Len(verdicts)] # "pass"

\* C1: a behaviour in which the loop is started (attempt leaves 0), for either
\* value of autoStartOnMainIdle, eventually reaches a state that is terminal
\* (done) or exhausted: attempt = maxAttempts after a verdict other than pass,
\* no active strategist, no active worker, no handler in flight.
C1_LoopProgress == <>(attempt >= 1) => <>(done \/ Exhausted)

\* C11: while paused no step registers a strategist or a worker session (idle
\* events, a verification finishing, spawn-worker calls), and the step that
\* sets paused leaves done and attempt unchanged.
C11_PauseNoSpawn ==
    [][/\ (paused /\ paused') => (SpawnedIn("ralph") = {} /\ SpawnedIn("worker") = {})
       /\ (~paused /\ paused') => (done' = done /\ attempt' = attempt)]_vars

EndCompleted ==
    /\ done
    /\ paused
    /\ \A h \in Slots : handlers[h].pc \notin {"end_abort", "end_persist"}

\* C12: once ralph_end_supervision has completed (done and paused are set and no
\* end handler is in flight) the active strategist, the active worker and the
\* active reviewer are unset, whatever handlers were in flight when it ran.
C12_EndClears ==
    EndCompleted => /\ currentRalphSessionId = None
                    /\ currentWorkerSessionId = None
                    /\ activeReviewer = NoReview

ResetApplied(h) ==
    /\ handlers[h].pc = "reset_files"
    /\ handlers'[h].pc = "reset_persist"

\* C13: a reset requested while done is false leaves the supervisor record
\* (attempt, active-session fields, flags, review-gating fields) unchanged.
C13_ResetOnlyTerminal ==
    [][\A h \in Slots :
         (ResetApplied(h) /\ ~done) =>
             /\ attempt' = attempt
             /\ paused' = paused
             /\ done' = done
             /\ currentRalphSessionId' = currentRalphSessionId
             /\ currentWorkerSessionId' = currentWorkerSessionId
             /\ UNCHANGED revVars]_vars

ForcedTakeover ==
    \E h \in Slots : /\ handlers[h].pc = "create_cfg"
                     /\ "force_rebind" \in handlers[h].arg
                     /\ sessionId' = handlers[h].sid
EndClearsBinding ==
    \E h \in Slots : /\ handlers[h].pc = "end_persist"
                     /\ "clear_binding" \in handlers[h].arg
                     /\ sessionId' = None

\* C14: once supervisor.sessionId is bound it changes only by a create call
\* with force_rebind (to the caller) or by end with clear_binding (to unset);
\* no other step (quickstart wizard, resume, idle events) rebinds it.
C14_FirstWriterWins ==
    [][(sessionId # None /\ sessionId' # sessionId) => (ForcedTakeover \/ EndClearsBinding)]_vars

MainIdleStarts(h) ==
    /\ handlers[h].pc = "main_setup"
    /\ handlers'[h].pc = "ralph_create"

\* C15: with autoStartOnMainIdle false no idle event of a main session sets
\* attempt to 1 and goes on to spawn a strategist.
C15_NoAutoStart ==
    [][~cfg.autoStartOnMainIdle => \A h \in Slots : ~MainIdleStarts(h)]_vars

WorkerIdleHandled(h) ==
    /\ handlers[h].pc = "worker_cfg"
    /\ handlers'[h] # handlers[h]

\* C16: when the idle event of the active worker is handled while the config is
\* enabled and the supervisor is neither paused nor done, the handler unsets
\* currentWorkerSessionId and goes on to run the verification.
C16_WorkerIdleVerifies ==
    [][\A h \in Slots :
         (WorkerIdleHandled(h) /\ cfg.enabled /\ ~paused /\ ~done) =>
             /\ currentWorkerSessionId' = None
             /\ handlers'[h].pc = "worker_verify"]_vars

\* C17: a burst of idle events of one worker is handled once: the number of
\* verification runs never exceeds the number of workers spawned.
C17_IdleDebounce ==
    Len(verdicts) <= Cardinality(CreatedWith("worker"))

Returned == {c \in CmdIds : commands[c].st = "returned"}

\* C18: a verification that has returned has the verdict unknown when no
\* command is configured; with a command its verdict is pass when the child
\* closed with code 0 and no timeout fired, and fail in every other case
\* (non-zero exit, spawn error, timeout).
C18_VerdictThreeValued ==
    \A c \in Returned :
        commands[c].verdict =
            IF ~cfg.verify THEN "unknown"
            ELSE IF commands[c].exit = "close" /\ commands[c].code = 0 /\ ~commands[c].timedOut
                   THEN "pass"
                   ELSE "fail"

InFlight == {c \in CmdIds : commands[c].st = "running"}
StopAllStep ==
    \E h \in Slots : handlers[h].pc # "end_persist" /\ handlers'[h].pc = "end_persist"

\* C19: the in-flight registry holds exactly the invocations between their
\* spawn and their exit, whichever way they exit (so it is empty when none is
\* running), and a stop-all signals every spawned child that is in the registry
\* at that moment.
C19_CommandRegistry ==
    /\ [](activeCommands = InFlight)
    /\ [][StopAllStep =>
            \A c \in activeCommands : commands[c].proc = "alive" => commands'[c].killed]_vars

C19_Witness ==
    /\ activeCommands = {}
    /\ \E c \in Returned : /\ commands[c].exit = "close"
                           /\ commands[c].killed
                           /\ ~commands[c].timedOut
    /\ \E c \in Returned : commands[c].exit = "error"

BadNameChecked(h) ==
    /\ handlers[h].pc = "sub_cfg"
    /\ ~ValidName(NameOf(h))
    /\ handlers'[h] # handlers[h]

\* C20 (as stated): a subagent_spawn with a name outside the allowed characters
\* is rejected with no document written, no session created and the session
\* registry, the caller's sub-agent list included, unchanged.
C20_BadNameRegistryUnchanged ==
    [][\A h \in Slots :
         BadNameChecked(h) =>
             /\ handlers'[h] = Free
             /\ agentDocs' = agentDocs
             /\ nextId' = nextId
             /\ created' = created
             /\ sessionMap' = sessionMap]_vars

\* C20 (amended): a subagent_spawn with a name outside the allowed characters
\* is rejected with no document written and no session created or registered
\* for the sub-task; the caller's sub-agent list is unchanged and the only
\* registry entry that may appear is the caller's own lazily created record.
C20_BadNameRejected ==
    [][\A h \in Slots :
         BadNameChecked(h) =>
             /\ handlers'[h] = Free
             /\ agentDocs' = agentDocs
             /\ nextId' = nextId
             /\ created' = created
             /\ \A id \in SessionIds \ {handlers[h].sid} : sessionMap'[id] = sessionMap[id]
             /\ sessionMap'[handlers[h].sid].subAgents = sessionMap[handlers[h].sid].subAgents
             /\ Registered(handlers[h].sid) =>
                    sessionMap'[handlers[h].sid] = sessionMap[handlers[h].sid]]_vars

\* With sub-agents enabled the main session is registered while no document is
\* written and no session was created only after its spawn was rejected for
\* the name: every other check passes while it has no sub-agent.
C20_Witness ==
    /\ cfg.subAgentEnabled
    /\ AllFree
    /\ Registered(Main1)
    /\ sessionMap[Main1].subAgents = <<>>
    /\ agentDocs = {}
    /\ nextId = FirstChildId

\* C21: for every session the number of its sub-agent records with status
\* running never exceeds maxSubAgents.
C21_SubAgentCap ==
    \A sid \in SessionIds : Cardinality(RunningSubAgents(sessionMap[sid])) <= MaxSubAgents

FreshlyBootstrapped(h) ==
    /\ handlers[h].pc = "sub_bootstrap"
    /\ handlers'[h].pc = "sub_create"

\* C30: a spawn starts its task from a fresh scratch document: when the
\* bootstrap of a name completes, before the task's session exists, the
\* CURRENT_STATE.md of the name does not hold the done heading or sentinel, so
\* subagent_await reports running until the new task finishes.
C30_FreshScratch ==
    [][\A h \in Slots : FreshlyBootstrapped(h) => NameOf(h) \notin agentDone']_vars

Responded(q) ==
    \E r \in RespondIds : /\ responds[r].id = asks[q].id
                          /\ responds[r].st = "done"
                          /\ responds[r].report # "error"
Polled(q) == asks[q].st = "poll" /\ asks'[q] # asks[q]

\* C22: a ralph_ask fails with the timeout error only after all its polling
\* iterations, and once a response for its id has been recorded the next
\* polling iteration returns an answer that a ralph_respond gave for the id.
C22_AskBlocks ==
    /\ [](\A q \in QIds : asks[q].st = "timeout" => asks[q].polls = MaxPolls)
    /\ [][\A q \in QIds :
            (Polled(q) /\ Responded(q)) =>
                /\ asks'[q].st = "returned"
                /\ \E r \in RespondIds : /\ responds[r].id = asks[q].id
                                      /\ responds[r].answer = asks'[q].answer]_vars

RespondChecked(r) == responds[r].st = "read" /\ responds'[r].st # "read"
RespondWritten(r) == responds[r].st = "write" /\ responds'[r].st = "done"

\* C23: a ralph_respond whose id is not a question of the store fails, listing
\* the unanswered questions, and leaves the store unchanged; one whose id is
\* known leaves its answer as the store's response for the id, and reports an
\* update when the store already held a response for the id and a first
\* response otherwise.
C23_RespondWrites ==
    [][\A r \in RespondIds :
         /\ (RespondChecked(r) /\ ~Known(pending, responds[r].id)) =>
                /\ responds'[r].st = "done"
                /\ responds'[r].report = "error"
                /\ responds'[r].listed = Unanswered(pending)
                /\ pending' = pending
         /\ (RespondChecked(r) /\ Known(pending, responds[r].id)) =>
                /\ responds'[r].st = "write"
                /\ responds'[r].report = IF pending.responses[responds[r].id] = NoAnswer
                                           THEN "recorded" ELSE "updated"
         /\ RespondWritten(r) =>
                /\ pending'.responses[responds[r].id] = responds[r].answer
                /\ responds'[r].report \in {"recorded", "updated"}]_vars

C23_Witness ==
    \E r \in RespondIds : /\ responds[r].st = "done"
                          /\ responds[r].report = "updated"
                          /\ pending.responses[responds[r].id] = responds[r].answer
                          /\ \E p \in RespondIds : /\ responds[p].id = responds[r].id
                                                   /\ responds[p].report = "recorded"
                                                   /\ responds[p].answer # responds[r].answer

\* C27: whatever the two raw fields of ralph.json are (left out, not finite,
\* below, inside or above the range, with or without a fraction), the resolved
\* grepRequiredThresholdLines lies between 1 and the resolved maxRlmSliceLines,
\* and the resolved maxRlmSliceLines lies between 10 and 2000.
C27_LimitsOrdered ==
    /\ limits.grepRequiredThresholdLines >= 1
    /\ limits.grepRequiredThresholdLines <= limits.maxRlmSliceLines
    /\ limits.maxRlmSliceLines \in 10..2000

C27_Witness ==
    /\ rawConfig.maxRlmSliceLines = Num(5)
    /\ rawConfig.grepRequiredThresholdLines = Num(30000)
    /\ limits = [maxRlmSliceLines |-> 10, grepRequiredThresholdLines |-> 10]

ReviewChecked(h) ==
    /\ handlers[h].pc = "review_cfg"
    /\ handlers'[h] # handlers[h]
CheckedAttempt(h) == ReviewAttempt(getSessionMap(handlers[h].sid), handlers[h].sid)
Gated(h) ==
    /\ cfg.reviewerEnabled
    /\ cfg.reviewerRequireExplicitReady
    /\ "force" \notin handlers[h].arg

\* C24: with the reviewer enabled, reviewerRequireExplicitReady set and force
\* not given, ralph_run_reviewer for an attempt without a recorded review
\* request answers "review not requested" and creates no reviewer session; with
\* the request recorded (and the run limit not reached, no reviewer active) the
\* same call goes on to create a reviewer session.
C24_ReadinessGate ==
    [][\A h \in Slots :
         (ReviewChecked(h) /\ Gated(h)) =>
             IF CheckedAttempt(h) \notin reviewRequested
               THEN /\ reviewReply' = "review not requested"
                    /\ handlers'[h] = Free
                    /\ reviewStarts' = reviewStarts
                    /\ nextId' = nextId
               ELSE (/\ reviewerRuns[CheckedAttempt(h)] < cfg.reviewerMaxRunsPerAttempt
                     /\ activeReviewer = NoReview)
                        => handlers'[h].pc = "review_create"]_vars

C24_Witness ==
    /\ cfg.reviewerRequireExplicitReady
    /\ reviewReply = "review not requested"
    /\ Len(reviewStarts) = 1
    /\ ~reviewStarts[1].force
    /\ \E h \in Slots : At(h, "review_prompt") /\ "force" \notin handlers[h].arg

NonForcedStarts(a) ==
    {i \in 1..Len(reviewStarts) : reviewStarts[i].attempt = a /\ ~reviewStarts[i].force}

\* C25: for every attempt the number of reviewer sessions created by calls
\* without force never exceeds the configured reviewerMaxRunsPerAttempt.
C25_ReviewQuota ==
    \A a \in AttemptRange : Cardinality(NonForcedStarts(a)) <= cfg.reviewerMaxRunsPerAttempt

ReviewQuiet ==
    /\ AllFree
    /\ writers = <<>>

\* C26: whenever every operation on the review-gating fields has completed (no
\* handler is at an await, no write of the state file is outstanding) the file
\* .opencode/reviewer_state.json holds exactly the review requests, the run
\* counts and the active-reviewer fields of the supervisor record.
C26_DiskMirrors == ReviewQuiet => reviewerDisk = ReviewerPayload

StrategistIdleHandled(h) ==
    /\ handlers[h].pc = "idle_route"
    /\ currentRalphSessionId = handlers[h].sid
    /\ currentWorkerSessionId # handlers[h].sid
    /\ handlers'[h] # handlers[h]
Delegated(h) == sessionMap[handlers[h].sid].workerSpawned
IdleSpawns(h) ==
    /\ handlers[h].pc \in {"main_setup", "worker_rollover"}
    /\ handlers'[h].pc = "ralph_create"
Stalled == lastToast = "Ralph: no worker spawned"

\* C28: when the idle event of the active strategist is handled and the
\* strategist has not called ralph_spawn_worker, currentRalphSessionId is unset,
\* the warning toast is shown and no session is created; and from then on (no
\* explicit start or resume being made) no idle handler goes on to spawn a
\* strategist.
C28_StallWithoutDelegation ==
    /\ [][\A h \in Slots :
            (StrategistIdleHandled(h) /\ ~Delegated(h)) =>
                /\ currentRalphSessionId' = None
                /\ currentWorkerSessionId' = currentWorkerSessionId
                /\ lastToast' = "Ralph: no worker spawned"
                /\ nextId' = nextId]_vars
    /\ [][Stalled => \A h \in Slots : ~IdleSpawns(h)]_vars

\* C29: when the idle event of the active strategist is handled and the
\* strategist has called ralph_spawn_worker, the handler leaves
\* currentRalphSessionId, currentWorkerSessionId, attempt, done and paused as
\* they are and creates no session.
C29_DelegatedIdleNoChange ==
    [][\A h \in Slots :
         (StrategistIdleHandled(h) /\ Delegated(h)) =>
             /\ UNCHANGED <<currentRalphSessionId, currentWorkerSessionId, attempt, done, paused>>
             /\ nextId' = nextId]_vars

\* C31: no two Question Records in the pending-question store have the same
\* id, whatever asks are made and however they interleave.
C31_UniqueQuestionIds ==
    \A q \in pending.questions : \A p \in pending.questions :
        q # p => asks[q].id # asks[p].id

ReviewerSessionCreated(h) ==
    /\ handlers[h].pc = "review_create"
    /\ handlers'[h].pc = "review_prompt"

\* C32: at most one review is in flight: ralph_run_reviewer creates no
\* reviewer session while the active-reviewer fields are set, in every
\* interleaving of concurrent calls, with or without force.
C32_OneReviewInFlight ==
    [][\A h \in Slots : ReviewerSessionCreated(h) => activeReviewer = NoReview]_vars

ReviewCompletion(h) ==
    /\ handlers[h].pc = "review_report"
    /\ handlers'[h].pc = "review_done"

\* C33: the step that handles a review's completion signal clears the
\* active-reviewer fields and the attempt's review request and adds one to the
\* attempt's run count, and the run count of an attempt changes in no other
\* step.
C33_RunCountOnCompletion ==
    [][/\ \A h \in Slots :
            ReviewCompletion(h) =>
                /\ activeReviewer' = NoReview
                /\ handlers[h].att \notin reviewRequested'
                /\ reviewerRuns'[handlers[h].att] = reviewerRuns[handlers[h].att] + 1
       /\ \A a \in AttemptRange :
            reviewerRuns'[a] # reviewerRuns[a] =>
                \E h \in Slots : ReviewCompletion(h) /\ handlers[h].att = a]_vars

WaitsWithoutForce(h) ==
    /\ ReviewChecked(h)
    /\ cfg.reviewerEnabled
    /\ "wait" \in handlers[h].arg
    /\ "force" \notin handlers[h].arg
    /\ activeReviewer # NoReview
    /\ activeReviewer.attempt = CheckedAttempt(h)

\* C34: while a review is active for an attempt, a ralph_run_reviewer with
\* wait and without force for that attempt attaches to the active review and
\* waits for its completion: it is not rejected and it starts no second
\* reviewer.
C34_WaitAttaches ==
    [][\A h \in Slots :
         WaitsWithoutForce(h) =>
             /\ handlers'[h].pc = "review_wait"
             /\ handlers'[h].child = activeReviewer.sessionId
             /\ reviewReply' = reviewReply]_vars

Ended ==
    /\ done
    /\ paused
    /\ \A h \in Slots : handlers[h].pc \notin {"end_abort", "end_persist"}

\* C35: once ralph_end_supervision has completed, a polling loop of ralph_ask
\* that has iterations left does not go on polling, and a ralph_run_reviewer
\* that is in its waiting loop writes no report and changes neither the
\* review-gating fields nor the state file.
C35_StopCancelsWaits ==
    [][Ended =>
         /\ \A q \in QIds :
              (asks[q].st = "poll" /\ asks[q].polls + 1 < MaxPolls /\ asks'[q] # asks[q])
                  => asks'[q].st # "poll"
         /\ \A h \in Slots :
              /\ At(h, "review_wait") => handlers'[h].pc # "review_report"
              /\ ~ReviewCompletion(h)
              /\ At(h, "review_done") => reviewerDisk' = reviewerDisk]_vars

\* C36: with a constant configuration the attempt counter of the supervisor
\* record stays between 0 and maxAttempts in every reachable state.
C36_AttemptBounded ==
    /\ attempt >= 0
    /\ attempt <= cfg.maxAttempts

WorkerOf(sid) ==
    {id \in ChildIds : created[id] = <<"worker", sessionMap[sid].attempt>>}

\* C37: a strategist's workerSpawned flag is set only if a worker session was
\* created and registered for its attempt (or its spawn-worker call is still
\* waiting for the session): after a failed creation the flag is unset.
C37_DelegatedMeansWorker ==
    \A sid \in SessionIds :
        (sessionMap[sid].role = "ralph" /\ sessionMap[sid].workerSpawned) =>
            \/ \E h \in Slots : At(h, "worker_create") /\ handlers[h].sid = sid
            \/ WorkerOf(sid) # {}

MainIdlePcs == {"idle_route", "main_cfg", "main_setup"}

\* C38: while the verification of an attempt is in flight (the active-worker
\* field cleared, no strategist active), the handling of an idle event of the
\* main session starts no strategist and leaves the attempt counter alone.
C38_VerifyWindowAtomic ==
    [][VerifyInFlight =>
         \A h \in Slots :
             handlers[h].pc \in MainIdlePcs =>
                 /\ handlers'[h].pc # "ralph_create"
                 /\ (handlers'[h] # handlers[h] => attempt' = attempt)]_vars

WorkerIdleLost ==
    /\ currentWorkerSessionId # None
    /\ currentWorkerSessionId \in idleDropped
Verifying == \E h \in Slots : At(h, "worker_verify")

\* C39: when the active worker has gone idle while supervision was paused,
\* then once supervision is resumed (and not paused again) the supervisor
\* eventually runs the verification of that worker's attempt.
C39_NoLostIdle == (WorkerIdleLost /\ ~paused) ~> (Verifying \/ paused)

\* C40: no update of the pending-question store is lost: a question that is
\* in the store stays in it and an id that has a response keeps having one,
\* in every interleaving of ralph_ask and ralph_respond calls.
C40_NoLostUpdate ==
    [][/\ pending.questions \subseteq pending'.questions
       /\ \A id \in QIds : pending.responses[id] # NoAnswer
                              => pending'.responses[id] # NoAnswer]_vars

====
